---- MODULE Spec2Model ----
(***************************************************************************)
(* Model of the decarbfinder simulation-and-selection pipeline:            *)
(*   module1_demand.project_annual_demand                                   *)
(*   module_2_supplyGeneration.simulate_supply_mix                          *)
(*   module3_storage.dispatch_storage / compute_reliability                 *)
(*   module_5_optimizer.run_optimizer                                       *)
(*                                                                         *)
(* Python floats are modelled as exact rationals [n |-> Int, d |-> Nat],   *)
(* kept in lowest terms, so the arithmetic of the source is reproduced     *)
(* without binary rounding error.  round(x, 3) is modelled by what it      *)
(* does: rounding to the nearest multiple of 1/1000, ties to even.         *)
(* The cost and emissions columns of the supply tables are not modelled.   *)
(***************************************************************************)
EXTENDS Integers, Sequences, FiniteSets, TLC

VARIABLES
    \* ---- simulate_supply_mix ----
    pc,                  \* position in the supply/storage run
    demand_df_empty,     \* demand_df.empty of the table handed to simulate_supply_mix
    sources,             \* List[GenerationSource] handed to simulate_supply_mix
    reserve_margin,      \* reserve_margin argument
    growth_weights,      \* name -> weight, built once
    scenario,            \* number of the scenario group being simulated
    start_year,          \* first year of the current scenario
    year,                \* year of the current row
    annual_demand_mwh,   \* demand of the current row
    vintages,            \* name -> sequence of <<install_year, capacity>>
    retired_capacity,    \* name -> capacity retired this year
    current_capacities,  \* name -> live capacity
    required_capacity_mw,
    total_capacity_mw,
    capacity_added,      \* name -> capacity added this year
    generated,           \* name -> generated_mwh of this year's dispatch
    remaining_demand,    \* remaining_demand after this year's dispatch loop
    year_energy_total,   \* year_energy_total after this year's dispatch loop
    per_source_rows,     \* rows appended so far (all scenarios)
    per_year_rows,       \* rows appended so far (all scenarios)
    \* ---- module3_storage ----
    storage,             \* StorageParams
    reserve_margin_target,
    storage_results,     \* rows returned by dispatch_storage / compute_reliability
    \* ---- module_5_optimizer.run_optimizer ----
    opc,                 \* position in run_optimizer
    supply_totals,       \* rows of the supply totals file
    storage_outputs,     \* rows of the storage outputs file
    filters,             \* FilterConfig
    reliability,         \* ReliabilityConfig
    selection,           \* SelectionConfig
    weight_sets,         \* Sequence[ScenarioWeights]
    summary,             \* the scenario summary as it passes through the stages
    windex,              \* number of weight sets processed by the loop
    scored_with,         \* names of the weight sets score_scenarios was called with
    ranked,              \* ranked table of the weight set processed last
    results,             \* the list of top-K tables, one per processed weight set
    output,              \* rows written to output_path, <<>> while nothing is written
    \* ---- module1_demand.project_annual_demand ----
    dpc,                 \* position in project_annual_demand
    demand_args,         \* the arguments of the call
    effective_growth,
    projection_year,     \* the loop variable "year"
    projections,         \* year -> projected demand
    \* ---- pipeline.run_pipeline ----
    ppc,                 \* position in run_pipeline, "off" when a stage is called on its own
    inputs,              \* the PipelineInputs of the run
    summaries,           \* year -> total_mwh, as load_demand_directory returns it
    files                \* the tables the run has written to the data directory

supplyVars == <<pc, demand_df_empty, sources, reserve_margin, growth_weights, scenario, start_year,
                year, annual_demand_mwh, vintages, retired_capacity,
                current_capacities, required_capacity_mw, total_capacity_mw,
                capacity_added, generated, remaining_demand, year_energy_total,
                per_source_rows, per_year_rows>>
storageVars == <<storage, reserve_margin_target, storage_results>>
optVars == <<opc, supply_totals, storage_outputs, filters, reliability, selection,
             weight_sets, summary, windex, scored_with, ranked, results, output>>
demandVars == <<dpc, demand_args, effective_growth, projection_year, projections>>
pipelineVars == <<ppc, inputs, summaries, files>>
\* everything the supply simulation owns, except the position
supplyData == <<demand_df_empty, sources, reserve_margin, growth_weights, scenario, start_year,
                year, annual_demand_mwh, vintages, retired_capacity,
                current_capacities, required_capacity_mw, total_capacity_mw,
                capacity_added, generated, remaining_demand, year_energy_total,
                per_source_rows, per_year_rows>>

-----------------------------------------------------------------------------
(* Exact rational arithmetic standing for Python float arithmetic.          *)

Abs(i) == IF i < 0 THEN -i ELSE i

RECURSIVE GCD(_, _)
GCD(a, b) == IF b = 0 THEN a ELSE GCD(b, a % b)

LCM(a, b) == (a \div GCD(a, b)) * b

\* the rational n/d in lowest terms with a positive denominator
R(n, d) ==
    LET s == IF d < 0 THEN -1 ELSE 1
        g == GCD(Abs(n), Abs(d))
    IN  [n |-> (s * n) \div g, d |-> (s * d) \div g]

Zero == [n |-> 0, d |-> 1]
One == [n |-> 1, d |-> 1]
Int2R(i) == [n |-> i, d |-> 1]

RAdd(a, b) ==
    LET l == LCM(a.d, b.d)
    IN  R(a.n * (l \div a.d) + b.n * (l \div b.d), l)

RNeg(a) == [n |-> -a.n, d |-> a.d]

RSub(a, b) == RAdd(a, RNeg(b))

RMul(a, b) ==
    LET g1 == GCD(Abs(a.n), b.d)
        g2 == GCD(Abs(b.n), a.d)
    IN  IF a.n = 0 \/ b.n = 0 THEN Zero
        ELSE [n |-> (a.n \div g1) * (b.n \div g2), d |-> (a.d \div g2) * (b.d \div g1)]

\* a / b for b # 0
RDiv(a, b) == RMul(a, IF b.n < 0 THEN [n |-> -b.d, d |-> -b.n] ELSE [n |-> b.d, d |-> b.n])

\* an/ad <= bn/bd for ad, bd > 0, by comparing floors and then the reciprocals
\* of the fractional parts (no products, so no overflow)
RECURSIVE FracLe(_, _, _, _)
FracLe(an, ad, bn, bd) ==
    LET ia == an \div ad
        ib == bn \div bd
        fa == an - ia * ad
        fb == bn - ib * bd
    IN  IF ia # ib THEN ia < ib
        ELSE IF fa = 0 THEN TRUE
        ELSE IF fb = 0 THEN FALSE
        ELSE FracLe(bd, fb, ad, fa)

RLe(a, b) == FracLe(a.n, a.d, b.n, b.d)

RLt(a, b) == ~RLe(b, a)

\* Python min(a, b) / max(a, b): the first argument unless the second is smaller / larger
RMin(a, b) == IF RLt(b, a) THEN b ELSE a
RMax(a, b) == IF RLt(a, b) THEN b ELSE a

RAbs(a) == [n |-> Abs(a.n), d |-> a.d]

\* round(x, 3): nearest multiple of 1/1000, ties to the even multiple
Round3(x) ==
    LET ip == x.n \div x.d                 \* floor(x)
        fr == x.n - ip * x.d                \* 0 <= fr < x.d
        m == fr * 1000
        fl == m \div x.d
        rem == m - fl * x.d
        up == IF 2 * rem > x.d THEN 1
              ELSE IF 2 * rem < x.d THEN 0
              ELSE IF fl % 2 = 0 THEN 0 ELSE 1
    IN  R(ip * 1000 + fl + up, 1000)

\* round(x, 2): nearest multiple of 1/100, ties to the even multiple
Round2(x) ==
    LET ip == x.n \div x.d
        fr == x.n - ip * x.d
        m == fr * 100
        fl == m \div x.d
        rem == m - fl * x.d
        up == IF 2 * rem > x.d THEN 1
              ELSE IF 2 * rem < x.d THEN 0
              ELSE IF fl % 2 = 0 THEN 0 ELSE 1
    IN  R(ip * 100 + fl + up, 100)

RECURSIVE RSumSeq(_)
RSumSeq(s) == IF s = <<>> THEN Zero ELSE RAdd(Head(s), RSumSeq(Tail(s)))

HOURS == 8760

-----------------------------------------------------------------------------
(* module_2_supplyGeneration.py                                            *)

\* names of a source list, in list order (the key order of the dicts built from it)
Names(srcs) == [i \in 1..Len(srcs) |-> srcs[i].name]

NameSet(srcs) == {srcs[i].name : i \in 1..Len(srcs)}

\* base_sources = {source.name: source for source in sources}
base_sources(srcs, name) == srcs[CHOOSE i \in 1..Len(srcs) : srcs[i].name = name]

\* sum(d.values()) over the names of srcs
SumOver(srcs, f) == RSumSeq([i \in 1..Len(srcs) |-> f[srcs[i].name]])

annual_energy_capacity(source) ==
    RMul(RMul(source.capacity_mw, source.capacity_factor), Int2R(HOURS))

\* capex_per_mw * capacity_mw / lifetime_years
annualized_capex(source) ==
    RDiv(RMul(source.capex_per_mw, source.capacity_mw), Int2R(source.lifetime_years))

\* growth weights whose equal split is not divided by the number of sources
build_growth_weights_unit(srcs) ==
    LET capacities == [nm \in NameSet(srcs) |-> base_sources(srcs, nm).capacity_mw]
        total_capacity == SumOver(srcs, capacities)
    IN  IF RLe(total_capacity, Zero)
        THEN [nm \in NameSet(srcs) |-> One]
        ELSE [nm \in NameSet(srcs) |-> RDiv(capacities[nm], total_capacity)]

build_growth_weights(srcs) ==
    LET capacities == [nm \in NameSet(srcs) |-> base_sources(srcs, nm).capacity_mw]
        total_capacity == SumOver(srcs, capacities)
        n == IF Len(srcs) > 1 THEN Len(srcs) ELSE 1
    IN  IF RLe(total_capacity, Zero)
        THEN [nm \in NameSet(srcs) |-> R(1, n)]
        ELSE [nm \in NameSet(srcs) |-> RDiv(capacities[nm], total_capacity)]

\* a sort key of the operating cost alone
DispatchKeyLess_opex_only(a, b) == RLt(a.opex_per_mwh, b.opex_per_mwh)

\* key=lambda source: (source.opex_per_mwh, source.emissions_t_per_mwh)
DispatchKeyLess(a, b) ==
    \/ RLt(a.opex_per_mwh, b.opex_per_mwh)
    \/ /\ a.opex_per_mwh = b.opex_per_mwh
       /\ RLt(a.emissions_t_per_mwh, b.emissions_t_per_mwh)

\* sorted(): stable, so x goes after every element that is not greater than it
RECURSIVE InsertByDispatchKey(_, _)
InsertByDispatchKey(x, s) ==
    IF s = <<>> THEN <<x>>
    ELSE IF DispatchKeyLess(x, Head(s)) THEN <<x>> \o s
    ELSE <<Head(s)>> \o InsertByDispatchKey(x, Tail(s))

RECURSIVE SortedFrom(_, _)
SortedFrom(srcs, acc) ==
    IF srcs = <<>> THEN acc
    ELSE SortedFrom(Tail(srcs), InsertByDispatchKey(Head(srcs), acc))

dispatch_order(srcs) == SortedFrom(srcs, <<>>)

init_vintages(srcs, startYear) ==
    [nm \in NameSet(srcs) |-> << <<startYear, base_sources(srcs, nm).capacity_mw>> >>]

\* retirement only once the age exceeds the lifetime
Expired_strict(entry, lifetime, yr) == yr - entry[1] > lifetime

\* a vintage is retired when year - install_year >= lifetime
Expired(entry, lifetime, yr) == yr - entry[1] >= lifetime

RECURSIVE RemainingEntries(_, _, _)
RemainingEntries(entries, lifetime, yr) ==
    IF entries = <<>> THEN <<>>
    ELSE IF Expired(Head(entries), lifetime, yr)
         THEN RemainingEntries(Tail(entries), lifetime, yr)
         ELSE <<Head(entries)>> \o RemainingEntries(Tail(entries), lifetime, yr)

RECURSIVE RetiredSum(_, _, _)
RetiredSum(entries, lifetime, yr) ==
    IF entries = <<>> THEN Zero
    ELSE RAdd(IF Expired(Head(entries), lifetime, yr) THEN Head(entries)[2] ELSE Zero,
              RetiredSum(Tail(entries), lifetime, yr))

\* the ledger left by _retire_capacity and the dict it returns
retire_remaining(vint, srcs, yr) ==
    [nm \in DOMAIN vint |->
        RemainingEntries(vint[nm], base_sources(srcs, nm).lifetime_years, yr)]

retire_retired(vint, srcs, yr) ==
    [nm \in DOMAIN vint |->
        RetiredSum(vint[nm], base_sources(srcs, nm).lifetime_years, yr)]
\* a live capacity that counts the oldest vintage only
current_capacity_oldest(vint) ==
    [nm \in DOMAIN vint |-> IF vint[nm] = <<>> THEN Zero ELSE vint[nm][1][2]]

current_capacity(vint) ==
    [nm \in DOMAIN vint |-> RSumSeq([i \in 1..Len(vint[nm]) |-> vint[nm][i][2]])]

\* required_capacity_mw = (annual_demand_mwh / 8760.0) * (1.0 + reserve_margin)
required_capacity(demand, margin) ==
    RMul(RDiv(demand, Int2R(HOURS)), RAdd(One, margin))


\* generated_mwh = min(potential_mwh, remaining_demand), without the cap
generated_amount_uncapped(potential_mwh, remaining) == potential_mwh

\* generated_mwh = min(potential_mwh, remaining_demand)
generated_amount(potential_mwh, remaining) == RMin(potential_mwh, remaining)

\* the per-source loop of the dispatch, over dispatch_sources in order:
\* acc = [remaining, total, cost, emissions, gen, rows]
RECURSIVE DispatchLoop(_, _, _, _, _, _)
DispatchLoop(ds, acc, yr, scen, added, retired) ==
    IF ds = <<>> THEN acc
    ELSE LET source == Head(ds)
             potential_mwh == annual_energy_capacity(source)
             generated_mwh == generated_amount(potential_mwh, acc.remaining)
             capex == annualized_capex(source)
             opex == RMul(generated_mwh, source.opex_per_mwh)
             total_cost == RAdd(capex, opex)
             emissions == RMul(generated_mwh, source.emissions_t_per_mwh)
             row == [year |-> yr,
                     scenario |-> scen,
                     source |-> source.name,
                     capacity_mw |-> Round3(source.capacity_mw),
                     capacity_added_mw |-> Round3(added[source.name]),
                     capacity_retired_mw |-> Round3(retired[source.name]),
                     capacity_factor |-> source.capacity_factor,
                     energy_generated_mwh |-> Round3(generated_mwh),
                     annualized_capex |-> Round2(capex),
                     opex |-> Round2(opex),
                     total_cost |-> Round2(total_cost),
                     emissions_t |-> Round3(emissions)]
         IN  DispatchLoop(Tail(ds),
                          [remaining |-> RSub(acc.remaining, generated_mwh),
                           total |-> RAdd(acc.total, generated_mwh),
                           cost |-> RAdd(acc.cost, total_cost),
                           emissions |-> RAdd(acc.emissions, emissions),
                           gen |-> [acc.gen EXCEPT ![source.name] = generated_mwh],
                           rows |-> Append(acc.rows, row)],
                          yr, scen, added, retired)

\* updated_sources that keeps each template's nameplate capacity
updated_sources_nameplate(srcs, caps) == srcs

\* updated_sources: the templates with capacity_mw replaced by the live capacity
updated_sources(srcs, caps) ==
    [i \in 1..Len(srcs) |-> [srcs[i] EXCEPT !.capacity_mw = caps[srcs[i].name]]]

-----------------------------------------------------------------------------
(* Inputs of a supply run.                                                 *)

MaxSources == 2
MaxRows == 2

FirstYear == 2025

\* source templates; capacity_mw is drawn separately
SourceTemplates ==
    << [name |-> "natural_gas", capacity_factor |-> One,
        capex_per_mw |-> Int2R(262800), opex_per_mwh |-> Int2R(2),
        emissions_t_per_mwh |-> R(9, 20), lifetime_years |-> 30],
       [name |-> "solar", capacity_factor |-> R(1, 2),
        capex_per_mw |-> Int2R(17520), opex_per_mwh |-> One,
        emissions_t_per_mwh |-> R(1, 50), lifetime_years |-> 2],
       [name |-> "wind", capacity_factor |-> R(1, 2),
        capex_per_mw |-> Int2R(8760), opex_per_mwh |-> One,
        emissions_t_per_mwh |-> R(3, 200), lifetime_years |-> 1] >>

DemandChoices == {Int2R(500000), Int2R(1000000), R(35040, 7)}

RmChoices == {Zero, R(3, 20), R(-1, 10)}

\* capacities of a fleet of k sources; a single-source fleet may also have
\* exactly the firm capacity a flat demand requires at a 15% reserve margin
InitialCapacities(k) ==
    {Zero, Int2R(60)} \cup
    (IF k = 1
     THEN {required_capacity(d, R(3, 20)) : d \in {Int2R(500000), Int2R(1000000)}}
     ELSE {})

WithCapacity(t, c) ==
    [name |-> t.name, capacity_mw |-> c, capacity_factor |-> t.capacity_factor,
     capex_per_mw |-> t.capex_per_mw,
     opex_per_mwh |-> t.opex_per_mwh, emissions_t_per_mwh |-> t.emissions_t_per_mwh,
     lifetime_years |-> t.lifetime_years]

\* strictly increasing index sequences of length k into SourceTemplates
IndexSeqs(k) ==
    {s \in [1..k -> 1..Len(SourceTemplates)] : \A i \in 1..(k - 1) : s[i] < s[i + 1]}

Fleets ==
    UNION {
        {[i \in 1..k |-> WithCapacity(SourceTemplates[ix[i]], cs[i])] :
            ix \in IndexSeqs(k), cs \in [1..k -> InitialCapacities(k)]}
        : k \in 1..MaxSources}

ZeroOver(srcs) == [nm \in NameSet(srcs) |-> Zero]

RowsOfScenario(rows, scen) == Len(SelectSeq(rows, LAMBDA r : r.scenario = scen))


YearSteps == {1, 2}

StartYears == {FirstYear}

-----------------------------------------------------------------------------
(* module3_storage.py                                                      *)

StorageChoices ==
    { [energy_capacity_mwh |-> Int2R(2000), power_capacity_mw |-> Int2R(500),
       round_trip_efficiency |-> R(9, 10), initial_soc_fraction |-> R(1, 2)],
      \* large and lossless
      [energy_capacity_mwh |-> Int2R(2000000), power_capacity_mw |-> Int2R(500),
       round_trip_efficiency |-> One, initial_soc_fraction |-> One],
      \* limited by power
      [energy_capacity_mwh |-> Int2R(2000000), power_capacity_mw |-> Int2R(10),
       round_trip_efficiency |-> R(9, 10), initial_soc_fraction |-> R(1, 2)],
      \* no storage
      [energy_capacity_mwh |-> Zero, power_capacity_mw |-> Zero,
       round_trip_efficiency |-> One, initial_soc_fraction |-> Zero],
      \* parameters outside their domains
      [energy_capacity_mwh |-> Int2R(2000), power_capacity_mw |-> Int2R(500),
       round_trip_efficiency |-> R(9, 10), initial_soc_fraction |-> R(3, 2)],
      [energy_capacity_mwh |-> Int2R(2000), power_capacity_mw |-> Int2R(500),
       round_trip_efficiency |-> R(9, 10), initial_soc_fraction |-> R(-1, 10)],
      [energy_capacity_mwh |-> Int2R(2000), power_capacity_mw |-> Int2R(500),
       round_trip_efficiency |-> Zero, initial_soc_fraction |-> R(1, 2)],
      [energy_capacity_mwh |-> Int2R(2000), power_capacity_mw |-> Int2R(500),
       round_trip_efficiency |-> R(11, 10), initial_soc_fraction |-> R(1, 2)] }

default_storage_params ==
    [energy_capacity_mwh |-> Int2R(2000), power_capacity_mw |-> Int2R(500),
     round_trip_efficiency |-> R(9, 10), initial_soc_fraction |-> R(1, 2)]

NoStorage == [energy_capacity_mwh |-> Zero, power_capacity_mw |-> Zero,
              round_trip_efficiency |-> One, initial_soc_fraction |-> Zero]

\* Series.clip(lower=l) / Series.clip(upper=u) on one value
ClipLower(x, l) == IF RLt(x, l) THEN l ELSE x
ClipUpper(x, u) == IF RLt(u, x) THEN u ELSE x

\* deliverable = min(energy_limit, power_limit)
deliverable_limit(st) ==
    LET energy_limit == RMul(st.energy_capacity_mwh, st.initial_soc_fraction)
        power_limit == RMul(st.power_capacity_mw, Int2R(HOURS))
    IN  RMin(energy_limit, power_limit)

\* storage discharge that is not limited by the deliverable energy
storage_delivered_unclipped(deficit, st) == RMul(deficit, st.round_trip_efficiency)

\* a discharge that loses nothing on the round trip
storage_delivered_lossless(deficit, st) == ClipUpper(deficit, deliverable_limit(st))

\* delivered = deficit.clip(upper=deliverable) * round_trip_efficiency
storage_delivered(deficit, st) ==
    RMul(ClipUpper(deficit, deliverable_limit(st)), st.round_trip_efficiency)

\* one row of dispatch_storage's result
dispatch_storage_row(row, st) ==
    LET deficit_mwh == ClipLower(RSub(row.annual_demand_mwh, row.energy_generated_mwh), Zero)
        delivered == storage_delivered(deficit_mwh, st)
    IN  [year |-> row.year,
         scenario |-> row.scenario,
         annual_demand_mwh |-> row.annual_demand_mwh,
         energy_generated_mwh |-> row.energy_generated_mwh,
         required_firm_capacity_mw |-> row.required_firm_capacity_mw,
         total_capacity_mw |-> row.total_capacity_mw,
         total_cost |-> row.total_cost,
         total_emissions_t |-> row.total_emissions_t,
         deficit_mwh |-> deficit_mwh,
         storage_delivered_mwh |-> delivered,
         unmet_demand_mwh |-> ClipLower(RSub(deficit_mwh, delivered), Zero)]

\* a validation that lets a round-trip efficiency of zero through
StorageParamsRejected_zero_efficiency(st) ==
    \/ ~(RLe(Zero, st.initial_soc_fraction) /\ RLe(st.initial_soc_fraction, One))
    \/ RLt(st.round_trip_efficiency, Zero)
    \/ RLt(One, st.round_trip_efficiency)

\* the two range checks at the head of dispatch_storage
StorageParamsRejected(st) ==
    \/ ~(RLe(Zero, st.initial_soc_fraction) /\ RLe(st.initial_soc_fraction, One))
    \/ RLe(st.round_trip_efficiency, Zero)
    \/ RLt(One, st.round_trip_efficiency)

\* a reliability flag that looks at the reserve margin only
compute_reliability_row_margin_only(row, target) ==
    LET avg_mw == RDiv(row.annual_demand_mwh, Int2R(HOURS))
        margin == RDiv(RSub(row.total_capacity_mw, avg_mw), avg_mw)
    IN  [year |-> row.year,
         scenario |-> row.scenario,
         annual_demand_mwh |-> row.annual_demand_mwh,
         energy_generated_mwh |-> row.energy_generated_mwh,
         required_firm_capacity_mw |-> row.required_firm_capacity_mw,
         total_capacity_mw |-> row.total_capacity_mw,
         total_cost |-> row.total_cost,
         total_emissions_t |-> row.total_emissions_t,
         deficit_mwh |-> row.deficit_mwh,
         storage_delivered_mwh |-> row.storage_delivered_mwh,
         unmet_demand_mwh |-> row.unmet_demand_mwh,
         reserve_margin |-> margin,
         reliability_pass |-> RLe(target, margin)]

\* one row of compute_reliability's result
compute_reliability_row(row, target) ==
    LET avg_mw == RDiv(row.annual_demand_mwh, Int2R(HOURS))
        margin == RDiv(RSub(row.total_capacity_mw, avg_mw), avg_mw)
    IN  [year |-> row.year,
         scenario |-> row.scenario,
         annual_demand_mwh |-> row.annual_demand_mwh,
         energy_generated_mwh |-> row.energy_generated_mwh,
         required_firm_capacity_mw |-> row.required_firm_capacity_mw,
         total_capacity_mw |-> row.total_capacity_mw,
         total_cost |-> row.total_cost,
         total_emissions_t |-> row.total_emissions_t,
         deficit_mwh |-> row.deficit_mwh,
         storage_delivered_mwh |-> row.storage_delivered_mwh,
         unmet_demand_mwh |-> row.unmet_demand_mwh,
         reserve_margin |-> margin,
         reliability_pass |-> RLe(target, margin) /\ RLe(row.unmet_demand_mwh, Zero)]

-----------------------------------------------------------------------------
(* module_5_optimizer.py                                                   *)

OBJECTIVE_PERIOD_START == 2025
OBJECTIVE_PERIOD_END == 2050
DEFAULT_TOP_K == 3
SENSITIVITY_EPSILON == R(1, 50)

\* a missing value (pd.NA / NaN) in a numeric column
NA == [n |-> 0, d |-> 0]
IsNA(x) == x.d = 0

\* scenario names, in the order Python compares the strings
ScenarioNames == <<"a", "b", "c">>
NameIndex(nm) == CHOOSE i \in 1..Len(ScenarioNames) : ScenarioNames[i] = nm
NameLess(x, y) == NameIndex(x) < NameIndex(y)

ObjectiveConfig ==
    [period_start |-> OBJECTIVE_PERIOD_START, period_end |-> OBJECTIVE_PERIOD_END]

ReliabilityConfig(mode, require, min_margin, max_unmet) ==
    [mode |-> mode, require_reliability_pass |-> require,
     min_reserve_margin |-> min_margin, max_unmet_demand_mwh |-> max_unmet]

\* FilterConfig; NA stands for None
FilterConfig(max_emissions, max_cost) ==
    [max_total_emissions_t |-> max_emissions, max_total_cost |-> max_cost]

SelectionConfig(k, eps) == [top_k |-> k, sensitivity_epsilon |-> eps]

ScenarioWeights(nm, cw, ew) ==
    [name |-> nm, cost_weight |-> cw, emissions_weight |-> ew,
     reliability_penalty |-> One]

build_weight_sets ==
    << ScenarioWeights("low_cost", R(7, 10), R(3, 10)),
       ScenarioWeights("low_emissions", R(3, 10), R(7, 10)),
       ScenarioWeights("balanced", R(1, 2), R(1, 2)) >>

\* stable sort of merged rows by (scenario, year)
MergeKeyLess(a, b) ==
    \/ NameLess(a.scenario, b.scenario)
    \/ a.scenario = b.scenario /\ a.year < b.year

RECURSIVE InsertByMergeKey(_, _)
InsertByMergeKey(sorted, x) ==
    IF sorted = <<>> THEN <<x>>
    ELSE IF MergeKeyLess(x, Head(sorted))
         THEN <<x>> \o sorted
         ELSE <<Head(sorted)>> \o InsertByMergeKey(Tail(sorted), x)

RECURSIVE SortByMergeKey(_, _)
SortByMergeKey(sorted, rest) ==
    IF rest = <<>> THEN sorted
    ELSE SortByMergeKey(InsertByMergeKey(sorted, Head(rest)), Tail(rest))

\* left join of the supply rows with the storage rows on (year, scenario)
MatchingStorage(row, storage_rows) ==
    SelectSeq(storage_rows,
              LAMBDA s : s.year = row.year /\ s.scenario = row.scenario)

MergedRow(row, storage_rows) ==
    LET m == MatchingStorage(row, storage_rows)
    IN  [scenario |-> row.scenario, year |-> row.year,
         total_cost |-> row.total_cost,
         total_emissions_t |-> row.total_emissions_t,
         \* a column both tables carry is suffixed by the merge, and
         \* _ensure_optional_columns then adds an all-NA unmet_demand_mwh
         unmet_demand_mwh |->
             IF m = <<>> \/ "unmet_demand_mwh" \in DOMAIN row
             THEN NA ELSE m[1].unmet_demand_mwh,
         reserve_margin |-> IF m = <<>> THEN NA ELSE m[1].reserve_margin,
         reliability_pass |->
             IF m = <<>> THEN "NA"
             ELSE IF m[1].reliability_pass THEN "True" ELSE "False"]

merge_inputs(supply_rows, storage_rows) ==
    SortByMergeKey(<<>>,
        [i \in 1..Len(supply_rows) |-> MergedRow(supply_rows[i], storage_rows)])

\* a period filter without the upper end
filter_period_open_end(df, objectives) ==
    SelectSeq(df, LAMBDA r : r.year >= objectives.period_start)

filter_period(df, objectives) ==
    SelectSeq(df, LAMBDA r : r.year >= objectives.period_start
                             /\ r.year <= objectives.period_end)

\* the scenarios of a table in order of first appearance (groupby, sort=False)
RECURSIVE GroupKeys(_, _)
GroupKeys(df, seen) ==
    IF df = <<>> THEN seen
    ELSE IF \E i \in 1..Len(seen) : seen[i] = Head(df).scenario
         THEN GroupKeys(Tail(df), seen)
         ELSE GroupKeys(Tail(df), Append(seen, Head(df).scenario))

\* column aggregations; missing values are skipped
RECURSIVE SumSkipNA(_)
SumSkipNA(xs) ==
    IF xs = <<>> THEN Zero
    ELSE IF IsNA(Head(xs)) THEN SumSkipNA(Tail(xs))
         ELSE RAdd(Head(xs), SumSkipNA(Tail(xs)))

RECURSIVE MinSkipNA(_)
MinSkipNA(xs) ==
    IF xs = <<>> THEN NA
    ELSE LET rest == MinSkipNA(Tail(xs))
         IN  IF IsNA(Head(xs)) THEN rest
             ELSE IF IsNA(rest) THEN Head(xs)
             ELSE RMin(Head(xs), rest)

AllSkipNA_any(flags) == \E i \in 1..Len(flags) : flags[i] # "False"

AllSkipNA(flags) == \A i \in 1..Len(flags) : flags[i] # "False"

AggregateGroup(df, scen) ==
    LET g == SelectSeq(df, LAMBDA r : r.scenario = scen)
    IN  [scenario |-> scen,
         total_cost |-> RSumSeq([i \in 1..Len(g) |-> g[i].total_cost]),
         total_emissions_t |-> RSumSeq([i \in 1..Len(g) |-> g[i].total_emissions_t]),
         unmet_demand_mwh |-> SumSkipNA([i \in 1..Len(g) |-> g[i].unmet_demand_mwh]),
         reserve_margin_min |-> MinSkipNA([i \in 1..Len(g) |-> g[i].reserve_margin]),
         reliability_pass |-> AllSkipNA([i \in 1..Len(g) |-> g[i].reliability_pass])]

\* stable sort of the summary by scenario
RECURSIVE InsertByScenario(_, _)
InsertByScenario(sorted, x) ==
    IF sorted = <<>> THEN <<x>>
    ELSE IF NameLess(x.scenario, Head(sorted).scenario)
         THEN <<x>> \o sorted
         ELSE <<Head(sorted)>> \o InsertByScenario(Tail(sorted), x)

RECURSIVE SortByScenario(_, _)
SortByScenario(sorted, rest) ==
    IF rest = <<>> THEN sorted
    ELSE SortByScenario(InsertByScenario(sorted, Head(rest)), Tail(rest))

aggregate_scenarios(df) ==
    LET keys == GroupKeys(df, <<>>)
    IN  SortByScenario(<<>>, [i \in 1..Len(keys) |-> AggregateGroup(df, keys[i])])

\* series.min() / series.max() of a column without missing values
RECURSIVE SeqMin(_)
SeqMin(xs) == IF Len(xs) = 1 THEN xs[1] ELSE RMin(xs[1], SeqMin(Tail(xs)))

RECURSIVE SeqMax(_)
SeqMax(xs) == IF Len(xs) = 1 THEN xs[1] ELSE RMax(xs[1], SeqMax(Tail(xs)))

\* a normalization that divides by the maximum only
min_max_by_max(series) ==
    LET max_val == SeqMax(series)
    IN  IF RLe(max_val, Zero)
        THEN [i \in 1..Len(series) |-> Zero]
        ELSE [i \in 1..Len(series) |-> RDiv(series[i], max_val)]

min_max(series) ==
    LET min_val == SeqMin(series)
        max_val == SeqMax(series)
    IN  IF RLe(max_val, min_val)
        THEN [i \in 1..Len(series) |-> Zero]
        ELSE [i \in 1..Len(series) |->
                 RDiv(RSub(series[i], min_val), RSub(max_val, min_val))]

WeightsNegative(weights) ==
    RLt(weights.cost_weight, Zero) \/ RLt(weights.emissions_weight, Zero)

WeightsSumOff(weights) ==
    RLt(R(1, 1000000),
        RAbs(RSub(RAdd(weights.cost_weight, weights.emissions_weight), One)))

validate_weights_raises_sign_only(weights) == WeightsNegative(weights)

\* _validate_weights raises
validate_weights_raises(weights) ==
    WeightsNegative(weights) \/ WeightsSumOff(weights)

apply_filters(table, flt) ==
    SelectSeq(table,
        LAMBDA r :
            /\ IsNA(flt.max_total_emissions_t)
               \/ RLe(r.total_emissions_t, flt.max_total_emissions_t)
            /\ IsNA(flt.max_total_cost)
               \/ RLe(r.total_cost, flt.max_total_cost))

reliability_ok_of_flag_only(r, rel) == r.reliability_pass

\* the reliability_ok column of apply_reliability_rule
reliability_ok_of(r, rel) ==
    /\ r.reliability_pass
    /\ IsNA(rel.min_reserve_margin)
       \/ (~IsNA(r.reserve_margin_min)
           /\ RLe(rel.min_reserve_margin, r.reserve_margin_min))
    /\ IsNA(rel.max_unmet_demand_mwh)
       \/ RLe(r.unmet_demand_mwh, rel.max_unmet_demand_mwh)

WithReliabilityOk(r, rel) ==
    [scenario |-> r.scenario, total_cost |-> r.total_cost,
     total_emissions_t |-> r.total_emissions_t,
     unmet_demand_mwh |-> r.unmet_demand_mwh,
     reserve_margin_min |-> r.reserve_margin_min,
     reliability_pass |-> r.reliability_pass,
     reliability_ok |-> reliability_ok_of(r, rel)]

apply_reliability_rule(table, rel) ==
    LET result == [i \in 1..Len(table) |-> WithReliabilityOk(table[i], rel)]
    IN  IF rel.mode = "hard"
        THEN SelectSeq(result, LAMBDA r : r.reliability_ok)
        ELSE result

\* scoring that never adds the reliability penalty
score_scenarios_no_penalty(table, weights, rel) ==
    LET cost_norm == min_max([i \in 1..Len(table) |-> table[i].total_cost])
        emissions_norm == min_max([i \in 1..Len(table) |-> table[i].total_emissions_t])
    IN  [i \in 1..Len(table) |->
            [scenario |-> table[i].scenario,
             total_cost |-> table[i].total_cost,
             total_emissions_t |-> table[i].total_emissions_t,
             reliability_ok |-> table[i].reliability_ok,
             cost_norm |-> cost_norm[i],
             emissions_norm |-> emissions_norm[i],
             score |-> RAdd(RMul(weights.cost_weight, cost_norm[i]),
                            RMul(weights.emissions_weight, emissions_norm[i]))]]

score_scenarios(table, weights, rel) ==
    LET cost_norm == min_max([i \in 1..Len(table) |-> table[i].total_cost])
        emissions_norm == min_max([i \in 1..Len(table) |-> table[i].total_emissions_t])
        base_score(i) == RAdd(RMul(weights.cost_weight, cost_norm[i]),
                              RMul(weights.emissions_weight, emissions_norm[i]))
        penalty(i) == IF table[i].reliability_ok THEN Zero ELSE One
    IN  [i \in 1..Len(table) |->
            [scenario |-> table[i].scenario,
             total_cost |-> table[i].total_cost,
             total_emissions_t |-> table[i].total_emissions_t,
             reliability_ok |-> table[i].reliability_ok,
             cost_norm |-> cost_norm[i],
             emissions_norm |-> emissions_norm[i],
             score |-> IF rel.mode = "penalty"
                       THEN RAdd(base_score(i),
                                 RMul(penalty(i), weights.reliability_penalty))
                       ELSE base_score(i)]]

\* the sort key of rank_scenarios, compared column by column
RankKeyLess_score_only(a, b) == RLt(a.score, b.score)

\* a key that puts total_cost before the score
RankKeyLess_cost_first(a, b) ==
    \/ RLt(a.total_cost, b.total_cost)
    \/ a.total_cost = b.total_cost /\ RLt(a.score, b.score)

RankKeyLess(a, b) ==
    \/ RLt(a.score, b.score)
    \/ /\ a.score = b.score
       /\ \/ RLt(a.total_cost, b.total_cost)
          \/ /\ a.total_cost = b.total_cost
             /\ \/ RLt(a.total_emissions_t, b.total_emissions_t)
                \/ /\ a.total_emissions_t = b.total_emissions_t
                   /\ NameLess(a.scenario, b.scenario)

RECURSIVE InsertByRankKey(_, _)
InsertByRankKey(sorted, x) ==
    IF sorted = <<>> THEN <<x>>
    ELSE IF RankKeyLess(x, Head(sorted))
         THEN <<x>> \o sorted
         ELSE <<Head(sorted)>> \o InsertByRankKey(Tail(sorted), x)

RECURSIVE SortByRankKey(_, _)
SortByRankKey(sorted, rest) ==
    IF rest = <<>> THEN sorted
    ELSE SortByRankKey(InsertByRankKey(sorted, Head(rest)), Tail(rest))

rank_scenarios(scored) ==
    LET sorted == SortByRankKey(<<>>, scored)
    IN  [i \in 1..Len(sorted) |->
            [scenario |-> sorted[i].scenario,
             total_cost |-> sorted[i].total_cost,
             total_emissions_t |-> sorted[i].total_emissions_t,
             reliability_ok |-> sorted[i].reliability_ok,
             cost_norm |-> sorted[i].cost_norm,
             emissions_norm |-> sorted[i].emissions_norm,
             score |-> sorted[i].score,
             rank |-> i]]

\* _sensitivity_flag over the score column of the ranked table
sensitivity_gap(scores) ==
    IF Len(scores) < 2 THEN Zero ELSE RSub(scores[2], scores[1])

sensitivity_flag_strict(scores, epsilon) ==
    IF Len(scores) < 2 THEN FALSE ELSE RLt(sensitivity_gap(scores), epsilon)

sensitivity_flag(scores, epsilon) ==
    IF Len(scores) < 2 THEN FALSE ELSE RLe(sensitivity_gap(scores), epsilon)

Min2(a, b) == IF a < b THEN a ELSE b

\* one iteration of the weight-set loop of run_optimizer, after validation
top_rows(table, weights, rel, sel) ==
    LET rk == rank_scenarios(score_scenarios(table, weights, rel))
        scores == [i \in 1..Len(rk) |-> rk[i].score]
        top == SubSeq(rk, 1, Min2(sel.top_k, Len(rk)))
    IN  [i \in 1..Len(top) |->
            [scenario |-> top[i].scenario,
             total_cost |-> top[i].total_cost,
             total_emissions_t |-> top[i].total_emissions_t,
             reliability_ok |-> top[i].reliability_ok,
             cost_norm |-> top[i].cost_norm,
             emissions_norm |-> top[i].emissions_norm,
             score |-> top[i].score,
             rank |-> top[i].rank,
             weight_set |-> weights.name,
             sensitivity_flag |->
                 sensitivity_flag(scores, sel.sensitivity_epsilon),
             sensitivity_gap |-> sensitivity_gap(scores)]]

RECURSIVE Concat(_)
Concat(tables) ==
    IF tables = <<>> THEN <<>> ELSE Head(tables) \o Concat(Tail(tables))

-----------------------------------------------------------------------------
(* Inputs of an optimizer run.                                             *)

MaxScenarios == 2

SupplyRow(scen, yr, cost, emissions) ==
    [scenario |-> scen, year |-> yr, total_cost |-> Int2R(cost),
     total_emissions_t |-> Int2R(emissions)]

StorageRow(scen, yr, unmet, margin, pass) ==
    [scenario |-> scen, year |-> yr, unmet_demand_mwh |-> Int2R(unmet),
     reserve_margin |-> margin, reliability_pass |-> pass]

\* the rows one scenario contributes to the two input files
ScenarioRowChoices(scen) ==
    { \* cheap and dirty, reliable
      [supply |-> <<SupplyRow(scen, 2025, 100, 20)>>,
       storage |-> <<StorageRow(scen, 2025, 0, R(1, 5), TRUE)>>],
      \* dear and clean, reliable
      [supply |-> <<SupplyRow(scen, 2025, 200, 10)>>,
       storage |-> <<StorageRow(scen, 2025, 0, R(1, 5), TRUE)>>],
      \* two years adding up to the first choice, the second year unreliable
      [supply |-> <<SupplyRow(scen, 2026, 50, 10), SupplyRow(scen, 2025, 50, 10)>>,
       storage |-> <<StorageRow(scen, 2025, 0, R(1, 5), TRUE),
                     StorageRow(scen, 2026, 5, R(1, 10), FALSE)>>],
      \* cheap and clean, no storage row
      [supply |-> <<SupplyRow(scen, 2025, 100, 10)>>,
       storage |-> <<>>],
      \* only a row before the objective period
      [supply |-> <<SupplyRow(scen, 2024, 100, 20)>>,
       storage |-> <<StorageRow(scen, 2024, 0, R(1, 5), TRUE)>>],
      \* a row in the period that passed a lower target, an unreliable row after it
      [supply |-> <<SupplyRow(scen, 2051, 1000, 1000), SupplyRow(scen, 2025, 150, 15)>>,
       storage |-> <<StorageRow(scen, 2025, 0, R(1, 8), TRUE),
                     StorageRow(scen, 2051, 9, Zero, FALSE)>>] }
    \cup
    \* for the first scenario also: two years, a reliable storage row for one;
    \* and a year flagged as failing against a target of 0.25, its margin and
    \* unmet demand within the optimizer's own thresholds
    (IF scen = ScenarioNames[1]
     THEN {[supply |-> <<SupplyRow(scen, 2025, 50, 10), SupplyRow(scen, 2026, 50, 10)>>,
            storage |-> <<StorageRow(scen, 2025, 0, R(1, 5), TRUE)>>],
           [supply |-> <<SupplyRow(scen, 2025, 100, 20)>>,
            storage |-> <<StorageRow(scen, 2025, 0, R(1, 5), FALSE)>>]}
     ELSE {})

\* input files for the scenarios ScenarioNames[1..k], later names first
RECURSIVE InputFiles(_)
InputFiles(k) ==
    IF k = 0 THEN {[supply |-> <<>>, storage |-> <<>>]}
    ELSE {[supply |-> c.supply \o f.supply, storage |-> f.storage \o c.storage] :
             c \in ScenarioRowChoices(ScenarioNames[k]), f \in InputFiles(k - 1)}

InputChoices == UNION {InputFiles(k) : k \in 1..MaxScenarios}

ReliabilityChoices ==
    { ReliabilityConfig("hard", TRUE, R(3, 20), Zero),
      ReliabilityConfig("penalty", TRUE, R(3, 20), Zero),
      ReliabilityConfig("penalty", FALSE, R(3, 20), Zero) }

FilterChoices ==
    { FilterConfig(NA, NA), FilterConfig(Int2R(15), NA), FilterConfig(NA, Int2R(150)) }

SelectionChoices ==
    { SelectionConfig(DEFAULT_TOP_K, SENSITIVITY_EPSILON),
      SelectionConfig(1, SENSITIVITY_EPSILON),
      SelectionConfig(DEFAULT_TOP_K, R(1, 100)) }

WeightSetChoices ==
    { build_weight_sets,
      <<ScenarioWeights("near_even", R(101, 200), R(99, 200))>>,
      <<ScenarioWeights("cost_only", One, Zero)>>,
      <<ScenarioWeights("low_cost", R(7, 10), R(3, 10)),
        ScenarioWeights("sum_1_1", R(6, 10), R(5, 10)),
        ScenarioWeights("balanced", R(1, 2), R(1, 2))>>,
      <<[ScenarioWeights("light_penalty", R(1, 2), R(1, 2))
            EXCEPT !.reliability_penalty = R(1, 4)]>>,
      <<ScenarioWeights("negative", R(-1, 10), R(11, 10)),
        ScenarioWeights("balanced", R(1, 2), R(1, 2))>>,
      <<ScenarioWeights("within_tolerance", R(1, 2), R(1000001, 2000000)),
        ScenarioWeights("beyond_tolerance", R(1, 2), R(250001, 500000))>> }

-----------------------------------------------------------------------------
(* pipeline.py                                                             *)

\* the tables run_pipeline writes under data/
DemandProjections == "module2_demand_projections.csv"
SupplyOutputs == "module2_supply_outputs.csv"
SupplyTotals == "module2_supply_totals.csv"
StorageOutputs == "module3_storage_outputs.csv"
OptimizerOutputs == "module5_optimizer_outputs.csv"

Max2(a, b) == IF a < b THEN b ELSE a

\* _energy_key on the names that occur as energy_old and energy_new
EnergyKey(name) ==
    CASE name = "Natural Gas" -> "natural_gas"
      [] name = "Nuclear" -> "nuclear"
      [] name = "Solar" -> "solar"
      [] name = "Wind" -> "wind"

\* old_map.get(key) and new_map.get(key), "None" standing for a missing key
old_map(key) ==
    IF key \in {"natural_gas", "coal", "fossil_fuels"} THEN "natural_gas" ELSE "None"

new_map(key) == IF key \in {"solar", "wind", "hydro"} THEN key ELSE "None"

\* module2.build_default_sources(): the templates, with capacities on the
\* scale of the demands of the model
build_default_sources ==
    << WithCapacity(SourceTemplates[1], Int2R(60)),
       WithCapacity(SourceTemplates[2], Int2R(30)),
       WithCapacity(SourceTemplates[3], Int2R(30)) >>

\* a fifth of the old source's capacity moves to the new source; energy_new
\* is never "Hydro" here, so no source is added to the default list
build_sources_with_preferences(energy_old, energy_new) ==
    LET srcs == build_default_sources
        old_key == old_map(EnergyKey(energy_old))
        new_key == new_map(EnergyKey(energy_new))
        has_old == old_key \in NameSet(srcs)
        shift == IF has_old
                 THEN RMul(R(1, 5), base_sources(srcs, old_key).capacity_mw)
                 ELSE Zero
    IN  [i \in 1..Len(srcs) |->
            IF has_old /\ srcs[i].name = old_key
            THEN [srcs[i] EXCEPT !.capacity_mw = RMax(RSub(@, shift), Zero)]
            ELSE IF has_old /\ srcs[i].name = new_key
            THEN [srcs[i] EXCEPT !.capacity_mw = RAdd(@, shift)]
            ELSE srcs[i]]

NoSummaries == [y \in {} |-> Zero]

\* max(summaries)
latest_year(summ) == CHOOSE y \in DOMAIN summ : \A z \in DOMAIN summ : z <= y

\* min(summaries)
earliest_year(summ) == CHOOSE y \in DOMAIN summ : \A z \in DOMAIN summ : y <= z

\* compute_cagr; the summaries of the model span at most one year, where the
\* span-th root of the ratio is the ratio itself
compute_cagr(summ) ==
    LET first == earliest_year(summ)
        last == latest_year(summ)
    IN  IF Cardinality(DOMAIN summ) < 2 THEN Zero
        ELSE IF last - first <= 0 \/ RLe(summ[first], Zero) THEN Zero
        ELSE RSub(RDiv(summ[last], summ[first]), One)

\* the arguments run_pipeline hands to project_annual_demand
projection_args(inp, summ) ==
    [base_year |-> latest_year(summ),
     base_total_mwh |-> summ[latest_year(summ)],
     start_year |-> Max2(inp.start_year, latest_year(summ)),
     end_year |-> inp.end_year,
     base_growth_rate |-> compute_cagr(summ),
     population_growth |-> inp.population_growth,
     electrification_uplift |-> inp.electrification_uplift,
     scenario_multiplier |-> inp.population_multiplier]

\* per_year_df.to_csv, read back by load_supply_totals
SupplyTotalsFile(rows, name) ==
    [i \in 1..Len(rows) |-> [rows[i] EXCEPT !.scenario = name]]

\* the eight columns of the storage results that save_outputs writes
StorageOutputsFile(rows, name) ==
    [i \in 1..Len(rows) |->
        [year |-> rows[i].year,
         scenario |-> name,
         annual_demand_mwh |-> rows[i].annual_demand_mwh,
         energy_generated_mwh |-> rows[i].energy_generated_mwh,
         storage_delivered_mwh |-> rows[i].storage_delivered_mwh,
         unmet_demand_mwh |-> rows[i].unmet_demand_mwh,
         reserve_margin |-> rows[i].reserve_margin,
         reliability_pass |-> rows[i].reliability_pass]]

\* data directories: none, one year, a year of no demand, two years of
\* falling demand
SummaryChoices ==
    { NoSummaries,
      [y \in {FirstYear - 1} |-> Int2R(1000000)],
      [y \in {FirstYear - 1} |-> Zero],
      [y \in {FirstYear - 2, FirstYear - 1} |->
          IF y = FirstYear - 1 THEN Int2R(500000) ELSE Int2R(1000000)] }

\* PipelineInputs; at most MaxRows years are projected
PipelineInputChoices ==
    {i \in [scenario_name : {ScenarioNames[1]},
            population_multiplier : {One},
            population_growth : {Zero},
            electrification_uplift : {Zero},
            reserve_margin : {R(3, 20), R(-1, 10)},
            start_year : {FirstYear - 2, FirstYear},
            end_year : (FirstYear - 1)..(FirstYear + MaxRows - 1),
            energy_old : {"Natural Gas", "Nuclear"},
            energy_new : {"Solar", "Wind"}] :
        i.end_year - Max2(i.start_year, FirstYear - 1) < MaxRows}

-----------------------------------------------------------------------------
(* The supply and storage run.                                             *)

InitSupply ==
    /\ pc = "start"
    /\ demand_df_empty \in BOOLEAN
    /\ sources \in Fleets
    /\ reserve_margin \in RmChoices
    /\ growth_weights = ZeroOver(sources)
    /\ scenario = 0
    /\ start_year = FirstYear
    /\ year = FirstYear
    /\ annual_demand_mwh = Zero
    /\ vintages = [nm \in NameSet(sources) |-> <<>>]
    /\ retired_capacity = ZeroOver(sources)
    /\ current_capacities = ZeroOver(sources)
    /\ required_capacity_mw = Zero
    /\ total_capacity_mw = Zero
    /\ capacity_added = ZeroOver(sources)
    /\ generated = ZeroOver(sources)
    /\ remaining_demand = Zero
    /\ year_energy_total = Zero
    /\ per_source_rows = <<>>
    /\ per_year_rows = <<>>

InitStorage ==
    /\ storage = NoStorage
    /\ reserve_margin_target = Zero
    /\ storage_results = <<>>

\* the two checks at the head of simulate_supply_mix
SupplyInputsRejected(empty, rm) == empty \/ RLt(rm, Zero)

\* simulate_supply_mix, up to the scenario loop: validation and growth weights
SimulateStart ==
    /\ pc = "start"
    /\ IF SupplyInputsRejected(demand_df_empty, reserve_margin)
       THEN /\ pc' = "error"
            /\ UNCHANGED growth_weights
       ELSE /\ pc' = "scenario"
            /\ growth_weights' = build_growth_weights(sources)
    /\ UNCHANGED <<demand_df_empty, sources, reserve_margin, scenario, start_year, year,
                   annual_demand_mwh, vintages, retired_capacity, current_capacities,
                   required_capacity_mw, total_capacity_mw, capacity_added, generated,
                   remaining_demand, year_energy_total, per_source_rows, per_year_rows>>
    /\ UNCHANGED <<storageVars, optVars, demandVars, pipelineVars>>

\* the first year of the scenario group that is entered: drawn when
\* simulate_supply_mix is called on its own, the first projected year in a
\* pipeline run (one scenario, one row per projected year)
FirstYearChoices ==
    IF ppc = "off" THEN StartYears ELSE {demand_args.start_year}

\* the rows "for _, row in scenario_df.iterrows()" can yield next: drawn when
\* simulate_supply_mix is called on its own, the next row of the projection
\* table in a pipeline run
NextDemandRows ==
    LET first == RowsOfScenario(per_year_rows, scenario) = 0
    IN  IF ppc = "off"
        THEN IF Len(per_year_rows) < MaxRows
             THEN {[year |-> IF first THEN start_year ELSE year + step,
                    annual_demand_mwh |-> d] :
                       d \in DemandChoices, step \in YearSteps}
             ELSE {}
        ELSE LET y == IF first THEN start_year ELSE year + 1
             IN  IF y \in DOMAIN projections
                 THEN {[year |-> y, annual_demand_mwh |-> projections[y]]}
                 ELSE {}

\* head of the scenario loop: a fresh ledger dated at the scenario's first year
StartScenario ==
    /\ pc = "scenario"
    /\ IF ppc = "off" THEN Len(per_year_rows) < MaxRows ELSE scenario = 0
    /\ \E sy \in FirstYearChoices :
        /\ start_year' = sy
        /\ vintages' = init_vintages(sources, sy)
    /\ scenario' = scenario + 1
    /\ current_capacities' = current_capacity(vintages')
    /\ pc' = "row"
    /\ UNCHANGED <<demand_df_empty, sources, reserve_margin, growth_weights, year, annual_demand_mwh,
                   retired_capacity, required_capacity_mw, total_capacity_mw,
                   capacity_added, generated, remaining_demand, year_energy_total,
                   per_source_rows, per_year_rows>>
    /\ UNCHANGED <<storageVars, optVars, demandVars, pipelineVars>>

\* next row of the scenario: retirement, capacity requirement, live total
Retire ==
    /\ pc = "row"
    /\ \E row \in NextDemandRows :
        /\ year' = row.year
        /\ annual_demand_mwh' = row.annual_demand_mwh
    /\ retired_capacity' = retire_retired(vintages, sources, year')
    /\ vintages' = retire_remaining(vintages, sources, year')
    /\ current_capacities' = current_capacity(vintages')
    /\ required_capacity_mw' = required_capacity(annual_demand_mwh', reserve_margin)
    /\ total_capacity_mw' = SumOver(sources, current_capacities')
    /\ capacity_added' = ZeroOver(sources)
    /\ pc' = "expand"
    /\ UNCHANGED <<demand_df_empty, sources, reserve_margin, growth_weights, scenario, start_year,
                   generated, remaining_demand, year_energy_total,
                   per_source_rows, per_year_rows>>
    /\ UNCHANGED <<storageVars, optVars, demandVars, pipelineVars>>
\* growth_needed = required_capacity_mw - total_capacity_mw
growth_needed == RSub(required_capacity_mw, total_capacity_mw)

\* an addition of the whole shortfall to every source
added_capacity_whole(needed, weight) == needed

\* added = growth_needed * weight
added_capacity(needed, weight) == RMul(needed, weight)

\* expansion of the fleet when the requirement exceeds the live total
Expand ==
    /\ pc = "expand"
    /\ IF RLt(total_capacity_mw, required_capacity_mw)
       THEN /\ capacity_added' =
                  [nm \in NameSet(sources) |->
                      added_capacity(growth_needed, growth_weights[nm])]
            /\ vintages' =
                  [nm \in NameSet(sources) |->
                      Append(vintages[nm], <<year, capacity_added'[nm]>>)]
            \* the total is summed before current_capacities is refreshed
            /\ total_capacity_mw' = SumOver(sources, current_capacities)
            /\ current_capacities' = current_capacity(vintages')
       ELSE UNCHANGED <<capacity_added, vintages, total_capacity_mw, current_capacities>>
    /\ pc' = "dispatch"
    /\ UNCHANGED <<demand_df_empty, sources, reserve_margin, growth_weights, scenario, start_year, year,
                   annual_demand_mwh, retired_capacity, required_capacity_mw,
                   generated, remaining_demand, year_energy_total,
                   per_source_rows, per_year_rows>>
    /\ UNCHANGED <<storageVars, optVars, demandVars, pipelineVars>>

\* merit-order dispatch and the year's rows
Dispatch ==
    /\ pc = "dispatch"
    /\ LET dispatch_sources == dispatch_order(updated_sources(sources, current_capacities))
           out == DispatchLoop(dispatch_sources,
                               [remaining |-> annual_demand_mwh, total |-> Zero,
                                cost |-> Zero, emissions |-> Zero,
                                gen |-> ZeroOver(sources), rows |-> <<>>],
                               year, scenario, capacity_added, retired_capacity)
       IN  /\ generated' = out.gen
           /\ remaining_demand' = out.remaining
           /\ year_energy_total' = out.total
           /\ per_source_rows' = per_source_rows \o out.rows
           /\ per_year_rows' = Append(per_year_rows,
                  [year |-> year,
                   scenario |-> scenario,
                   annual_demand_mwh |-> Round3(annual_demand_mwh),
                   energy_generated_mwh |-> Round3(out.total),
                   unmet_demand_mwh |-> Round3(RMax(out.remaining, Zero)),
                   required_firm_capacity_mw |-> Round3(required_capacity_mw),
                   total_capacity_mw |-> Round3(total_capacity_mw),
                   total_cost |-> Round2(out.cost),
                   total_emissions_t |-> Round3(out.emissions)])
    /\ pc' = "row"
    /\ UNCHANGED <<demand_df_empty, sources, reserve_margin, growth_weights, scenario, start_year, year,
                   annual_demand_mwh, vintages, retired_capacity, current_capacities,
                   required_capacity_mw, total_capacity_mw, capacity_added>>
    /\ UNCHANGED <<storageVars, optVars, demandVars, pipelineVars>>

\* the scenario's rows are exhausted and another scenario group follows
NextScenario ==
    /\ pc = "row"
    /\ ppc = "off"
    /\ RowsOfScenario(per_year_rows, scenario) > 0
    /\ Len(per_year_rows) < MaxRows
    /\ pc' = "scenario"
    /\ UNCHANGED <<demand_df_empty, sources, reserve_margin, growth_weights, scenario, start_year, year,
                   annual_demand_mwh, vintages, retired_capacity, current_capacities,
                   required_capacity_mw, total_capacity_mw, capacity_added, generated,
                   remaining_demand, year_energy_total, per_source_rows, per_year_rows>>
    /\ UNCHANGED <<storageVars, optVars, demandVars, pipelineVars>>

\* the last scenario's rows are exhausted: simulate_supply_mix returns its tables
SimulateReturn ==
    /\ pc = "row"
    /\ RowsOfScenario(per_year_rows, scenario) > 0
    /\ ppc # "off" => NextDemandRows = {}
    /\ pc' = "supply_done"
    /\ UNCHANGED <<demand_df_empty, sources, reserve_margin, growth_weights, scenario, start_year, year,
                   annual_demand_mwh, vintages, retired_capacity, current_capacities,
                   required_capacity_mw, total_capacity_mw, capacity_added, generated,
                   remaining_demand, year_energy_total, per_source_rows, per_year_rows>>
    /\ UNCHANGED <<storageVars, optVars, demandVars, pipelineVars>>

\* dispatch_storage(per_year_df, storage)
DispatchStorage ==
    /\ pc = "supply_done"
    /\ ppc \in {"off", "storage"}
    /\ \E st \in (IF ppc = "off" THEN StorageChoices ELSE {default_storage_params}) :
        /\ storage' = st
        /\ IF per_year_rows = <<>> \/ StorageParamsRejected(st)
           THEN /\ pc' = "error"
                /\ UNCHANGED storage_results
           ELSE /\ pc' = "storage_dispatched"
                /\ storage_results' =
                      [i \in 1..Len(per_year_rows) |->
                          dispatch_storage_row(per_year_rows[i], st)]
    /\ UNCHANGED reserve_margin_target
    /\ UNCHANGED <<supplyData, optVars, demandVars, pipelineVars>>


TargetChoices == {R(3, 20)}

\* compute_reliability(storage_results, reserve_margin_target)
ComputeReliability ==
    /\ pc = "storage_dispatched"
    /\ \E target \in (IF ppc = "off" THEN TargetChoices ELSE {}) \cup {reserve_margin} :
        /\ reserve_margin_target' = target
        /\ IF RLt(target, Zero)
           THEN /\ pc' = "error"
                /\ UNCHANGED storage_results
           ELSE /\ pc' = "storage_done"
                /\ storage_results' =
                      [i \in 1..Len(storage_results) |->
                          compute_reliability_row(storage_results[i], target)]
    /\ UNCHANGED storage
    /\ UNCHANGED <<supplyData, optVars, demandVars, pipelineVars>>

-----------------------------------------------------------------------------
(* run_optimizer                                                           *)

InitOptimizer ==
    /\ opc = "start"
    /\ \E f \in InputChoices :
          /\ supply_totals = f.supply
          /\ storage_outputs = f.storage
    /\ filters \in FilterChoices
    /\ reliability \in ReliabilityChoices
    /\ selection \in SelectionChoices
    /\ weight_sets \in WeightSetChoices
    /\ summary = <<>>
    /\ windex = 0
    /\ scored_with = <<>>
    /\ ranked = <<>>
    /\ results = <<>>
    /\ output = <<>>

\* no optimizer run
IdleOptimizer ==
    /\ opc = "idle"
    /\ supply_totals = <<>>
    /\ storage_outputs = <<>>
    /\ filters = FilterConfig(NA, NA)
    /\ reliability = ReliabilityConfig("hard", TRUE, R(3, 20), Zero)
    /\ selection = SelectionConfig(DEFAULT_TOP_K, SENSITIVITY_EPSILON)
    /\ weight_sets = build_weight_sets
    /\ summary = <<>>
    /\ windex = 0
    /\ scored_with = <<>>
    /\ ranked = <<>>
    /\ results = <<>>
    /\ output = <<>>

\* no supply or storage run
IdleSupply ==
    /\ pc = "idle"
    /\ demand_df_empty = FALSE
    /\ sources = <<>>
    /\ reserve_margin = Zero
    /\ growth_weights = ZeroOver(sources)
    /\ scenario = 0
    /\ start_year = FirstYear
    /\ year = FirstYear
    /\ annual_demand_mwh = Zero
    /\ vintages = [nm \in NameSet(sources) |-> <<>>]
    /\ retired_capacity = ZeroOver(sources)
    /\ current_capacities = ZeroOver(sources)
    /\ required_capacity_mw = Zero
    /\ total_capacity_mw = Zero
    /\ capacity_added = ZeroOver(sources)
    /\ generated = ZeroOver(sources)
    /\ remaining_demand = Zero
    /\ year_energy_total = Zero
    /\ per_source_rows = <<>>
    /\ per_year_rows = <<>>

\* run_optimizer: load, merge, restrict to the objective period, aggregate
LoadAndAggregate ==
    /\ opc = "start"
    /\ LET merged == filter_period(merge_inputs(supply_totals, storage_outputs),
                                   ObjectiveConfig)
       IN  IF merged = <<>>
           THEN /\ opc' = "error_period"
                /\ UNCHANGED summary
           ELSE /\ opc' = "aggregated"
                /\ summary' = aggregate_scenarios(merged)
    /\ UNCHANGED <<supply_totals, storage_outputs, filters, reliability, selection,
                   weight_sets, windex, scored_with, ranked, results, output>>
    /\ UNCHANGED <<supplyVars, storageVars, demandVars, pipelineVars>>

ApplyFilters ==
    /\ opc = "aggregated"
    /\ LET filtered == apply_filters(summary, filters)
       IN  IF filtered = <<>>
           THEN /\ opc' = "error_filters"
                /\ UNCHANGED summary
           ELSE /\ opc' = "filtered"
                /\ summary' = filtered
    /\ UNCHANGED <<supply_totals, storage_outputs, filters, reliability, selection,
                   weight_sets, windex, scored_with, ranked, results, output>>
    /\ UNCHANGED <<supplyVars, storageVars, demandVars, pipelineVars>>

ApplyReliabilityRule ==
    /\ opc = "filtered"
    /\ LET result == apply_reliability_rule(summary, reliability)
       IN  IF result = <<>>
           THEN /\ opc' = "error_reliability"
                /\ UNCHANGED summary
           ELSE /\ opc' = "loop"
                /\ summary' = result
    /\ UNCHANGED <<supply_totals, storage_outputs, filters, reliability, selection,
                   weight_sets, windex, scored_with, ranked, results, output>>
    /\ UNCHANGED <<supplyVars, storageVars, demandVars, pipelineVars>>

\* one iteration of "for weights in weight_sets"
ScoreWeightSet ==
    /\ opc = "loop"
    /\ windex < Len(weight_sets)
    /\ LET weights == weight_sets[windex + 1]
       IN  IF validate_weights_raises(weights)
           THEN /\ opc' = "error_weights"
                /\ UNCHANGED <<windex, scored_with, ranked, results>>
           ELSE /\ opc' = "loop"
                /\ windex' = windex + 1
                /\ scored_with' = Append(scored_with, weights.name)
                /\ ranked' = rank_scenarios(score_scenarios(summary, weights, reliability))
                /\ results' = Append(results,
                                     top_rows(summary, weights, reliability, selection))
    /\ UNCHANGED <<supply_totals, storage_outputs, filters, reliability, selection,
                   weight_sets, summary, output>>
    /\ UNCHANGED <<supplyVars, storageVars, demandVars, pipelineVars>>

\* pd.concat(results) and output.to_csv
WriteOutput ==
    /\ opc = "loop"
    /\ windex = Len(weight_sets)
    /\ opc' = "written"
    /\ output' = Concat(results)
    /\ files' = IF ppc = "off" THEN files ELSE files \cup {OptimizerOutputs}
    /\ UNCHANGED <<supply_totals, storage_outputs, filters, reliability, selection,
                   weight_sets, summary, windex, scored_with, ranked, results>>
    /\ UNCHANGED <<supplyVars, storageVars, demandVars, ppc, inputs, summaries>>

NextOptimizer ==
    \/ LoadAndAggregate
    \/ ApplyFilters
    \/ ApplyReliabilityRule
    \/ ScoreWeightSet
    \/ WriteOutput

-----------------------------------------------------------------------------
(* module1_demand.project_annual_demand                                    *)

MaxHorizon == 2

RECURSIVE RPowNat(_, _)
RPowNat(x, k) == IF k = 0 THEN One ELSE RMul(x, RPowNat(x, k - 1))

\* x ** k for an integer exponent
RPow(x, k) == IF k >= 0 THEN RPowNat(x, k) ELSE RDiv(One, RPowNat(x, -k))

effective_growth_of(args) ==
    RSub(RMul(RMul(RAdd(One, args.base_growth_rate), RAdd(One, args.population_growth)),
              RAdd(One, args.electrification_uplift)),
         One)

projected_demand(args, growth, yr) ==
    RMul(RMul(args.base_total_mwh, RPow(RAdd(One, growth), yr - args.base_year)),
         args.scenario_multiplier)

DemandArgChoices ==
    [base_year : {FirstYear - 1, FirstYear + 1},
     base_total_mwh : {Zero, Int2R(100)},
     start_year : {FirstYear},
     end_year : (FirstYear - 1)..(FirstYear + MaxHorizon),
     base_growth_rate : {Zero, R(1, 10), R(-1, 10)},
     population_growth : {Zero, R(1, 10)},
     electrification_uplift : {Zero, R(1, 4)},
     scenario_multiplier : {Int2R(-1), Zero, R(1, 2), One, Int2R(2)}]

NoProjections == [y \in {} |-> Zero]

InitDemand ==
    /\ dpc = "start"
    /\ demand_args \in DemandArgChoices
    /\ effective_growth = Zero
    /\ projection_year = FirstYear
    /\ projections = NoProjections

\* no projection run
IdleDemand ==
    /\ dpc = "idle"
    /\ demand_args = [base_year |-> FirstYear, base_total_mwh |-> Zero,
                      start_year |-> FirstYear, end_year |-> FirstYear,
                      base_growth_rate |-> Zero, population_growth |-> Zero,
                      electrification_uplift |-> Zero, scenario_multiplier |-> One]
    /\ effective_growth = Zero
    /\ projection_year = FirstYear
    /\ projections = NoProjections

\* validation and effective_growth
ProjectStart ==
    /\ dpc = "start"
    /\ IF demand_args.end_year < demand_args.start_year
          \/ RLe(demand_args.base_total_mwh, Zero)
       THEN /\ dpc' = "error"
            /\ UNCHANGED <<effective_growth, projection_year>>
       ELSE /\ dpc' = "loop"
            /\ effective_growth' = effective_growth_of(demand_args)
            /\ projection_year' = demand_args.start_year
    /\ UNCHANGED <<demand_args, projections>>
    /\ UNCHANGED <<supplyVars, storageVars, optVars, pipelineVars>>

\* one iteration of "for year in range(start_year, end_year + 1)"
ProjectYear ==
    /\ dpc = "loop"
    /\ projection_year <= demand_args.end_year
    /\ projections' =
           [y \in (DOMAIN projections) \cup {projection_year} |->
               IF y = projection_year
               THEN projected_demand(demand_args, effective_growth, projection_year)
               ELSE projections[y]]
    /\ projection_year' = projection_year + 1
    /\ UNCHANGED <<dpc, demand_args, effective_growth>>
    /\ UNCHANGED <<supplyVars, storageVars, optVars, pipelineVars>>

ProjectReturn ==
    /\ dpc = "loop"
    /\ projection_year > demand_args.end_year
    /\ dpc' = "done"
    /\ UNCHANGED <<demand_args, effective_growth, projection_year, projections>>
    /\ UNCHANGED <<supplyVars, storageVars, optVars, pipelineVars>>

NextDemand ==
    \/ ProjectStart
    \/ ProjectYear
    \/ ProjectReturn

-----------------------------------------------------------------------------
(* run_pipeline                                                            *)

InitPipelineRun ==
    /\ ppc = "load"
    /\ inputs \in PipelineInputChoices
    /\ summaries \in SummaryChoices
    /\ files = {}

\* no pipeline run: a stage is called on its own
IdlePipeline ==
    /\ ppc = "off"
    /\ inputs = [scenario_name |-> ScenarioNames[1], population_multiplier |-> One,
                 population_growth |-> Zero, electrification_uplift |-> Zero,
                 reserve_margin |-> R(3, 20), start_year |-> FirstYear,
                 end_year |-> FirstYear, energy_old |-> "Natural Gas",
                 energy_new |-> "Solar"]
    /\ summaries = NoSummaries
    /\ files = {}

\* load_demand_directory, compute_cagr and the call of project_annual_demand
PipelineLoad ==
    /\ ppc = "load"
    /\ IF DOMAIN summaries = {}
       THEN /\ ppc' = "failed"
            /\ UNCHANGED <<dpc, demand_args>>
       ELSE /\ ppc' = "project"
            /\ dpc' = "start"
            /\ demand_args' = projection_args(inputs, summaries)
    /\ UNCHANGED <<effective_growth, projection_year, projections>>
    /\ UNCHANGED <<inputs, summaries, files>>
    /\ UNCHANGED <<supplyVars, storageVars, optVars>>

\* export_projections_csv, the demand table, the sources, and the call of
\* simulate_supply_mix
ExportProjections ==
    /\ ppc = "project"
    /\ dpc = "done"
    /\ files' = files \cup {DemandProjections}
    /\ ppc' = "supply"
    /\ pc' = "start"
    /\ demand_df_empty' = (DOMAIN projections = {})
    /\ sources' = build_sources_with_preferences(inputs.energy_old, inputs.energy_new)
    /\ reserve_margin' = inputs.reserve_margin
    /\ growth_weights' = ZeroOver(sources')
    /\ vintages' = [nm \in NameSet(sources') |-> <<>>]
    /\ retired_capacity' = ZeroOver(sources')
    /\ current_capacities' = ZeroOver(sources')
    /\ capacity_added' = ZeroOver(sources')
    /\ generated' = ZeroOver(sources')
    /\ UNCHANGED <<scenario, start_year, year, annual_demand_mwh, required_capacity_mw,
                   total_capacity_mw, remaining_demand, year_energy_total,
                   per_source_rows, per_year_rows>>
    /\ UNCHANGED <<inputs, summaries>>
    /\ UNCHANGED <<storageVars, optVars, demandVars>>

\* per_source_df.to_csv and per_year_df.to_csv, then on to dispatch_storage
WriteSupply ==
    /\ ppc = "supply"
    /\ pc = "supply_done"
    /\ files' = files \cup {SupplyOutputs, SupplyTotals}
    /\ ppc' = "storage"
    /\ UNCHANGED <<inputs, summaries>>
    /\ UNCHANGED <<supplyVars, storageVars, optVars, demandVars>>

\* save_outputs and the call of run_optimizer on the two tables just written
WriteStorage ==
    /\ ppc = "storage"
    /\ pc = "storage_done"
    /\ files' = files \cup {StorageOutputs}
    /\ ppc' = "optimizer"
    /\ opc' = "start"
    /\ supply_totals' = SupplyTotalsFile(per_year_rows, inputs.scenario_name)
    /\ storage_outputs' = StorageOutputsFile(storage_results, inputs.scenario_name)
    /\ reliability' = ReliabilityConfig("penalty", FALSE, R(3, 20), Zero)
    /\ filters' = FilterConfig(NA, NA)
    /\ selection' = SelectionConfig(DEFAULT_TOP_K, SENSITIVITY_EPSILON)
    /\ weight_sets' = build_weight_sets
    /\ UNCHANGED <<summary, windex, scored_with, ranked, results, output>>
    /\ UNCHANGED <<inputs, summaries>>
    /\ UNCHANGED <<supplyVars, storageVars, demandVars>>

\* run_optimizer has returned: run_pipeline returns its results
PipelineReturn ==
    /\ ppc = "optimizer"
    /\ opc = "written"
    /\ ppc' = "done"
    /\ UNCHANGED <<inputs, summaries, files>>
    /\ UNCHANGED <<supplyVars, storageVars, optVars, demandVars>>

\* the stage that run_pipeline is in has raised
StageRaised ==
    CASE ppc = "project" -> dpc = "error"
      [] ppc \in {"supply", "storage"} -> pc = "error"
      [] ppc = "optimizer" ->
            opc \in {"error_period", "error_filters", "error_reliability", "error_weights"}
      [] OTHER -> FALSE

\* run_pipeline catches nothing: the error of a stage ends the run
PipelineRaise ==
    /\ StageRaised
    /\ ppc' = "failed"
    /\ UNCHANGED <<inputs, summaries, files>>
    /\ UNCHANGED <<supplyVars, storageVars, optVars, demandVars>>

NextPipeline ==
    \/ PipelineLoad
    \/ ProjectStart
    \/ ProjectYear
    \/ ProjectReturn
    \/ ExportProjections
    \/ SimulateStart
    \/ StartScenario
    \/ Retire
    \/ Expand
    \/ Dispatch
    \/ SimulateReturn
    \/ WriteSupply
    \/ DispatchStorage
    \/ ComputeReliability
    \/ WriteStorage
    \/ LoadAndAggregate
    \/ ApplyFilters
    \/ ApplyReliabilityRule
    \/ ScoreWeightSet
    \/ WriteOutput
    \/ PipelineReturn
    \/ PipelineRaise

-----------------------------------------------------------------------------

NextSupply ==
    \/ SimulateStart
    \/ StartScenario
    \/ Retire
    \/ Expand
    \/ Dispatch
    \/ NextScenario
    \/ SimulateReturn
    \/ DispatchStorage
    \/ ComputeReliability

vars == <<supplyVars, storageVars, optVars, demandVars, pipelineVars>>

Init == InitSupply /\ InitStorage /\ IdleOptimizer /\ IdleDemand /\ IdlePipeline

Next == NextSupply

Spec == Init /\ [][Next]_vars

InitOpt == IdleSupply /\ InitStorage /\ InitOptimizer /\ IdleDemand /\ IdlePipeline

SpecOpt == InitOpt /\ [][NextOptimizer]_vars

InitDem == IdleSupply /\ InitStorage /\ IdleOptimizer /\ InitDemand /\ IdlePipeline

SpecDemand == InitDem /\ [][NextDemand]_vars

\* each stage called on its own: a projection, or a supply and storage run
InitStages == Init \/ InitDem

NextStages == NextDemand \/ NextSupply

SpecStages == InitStages /\ [][NextStages]_vars

InitPipeline == IdleSupply /\ InitStorage /\ IdleOptimizer /\ IdleDemand /\ InitPipelineRun

SpecPipeline == InitPipeline /\ [][NextPipeline]_vars

-----------------------------------------------------------------------------
(* Properties of the supply simulation and the storage evaluation.         *)

\* the locals of the dispatch loop hold the last dispatched year's values
Dispatched ==
    /\ pc \notin {"expand", "dispatch"}
    /\ RowsOfScenario(per_year_rows, scenario) > 0

Milli == R(1, 1000)

RowBalanceError(r) ==
    RAbs(RSub(RAdd(r.energy_generated_mwh, r.unmet_demand_mwh), r.annual_demand_mwh))

\* C1 (as stated): every per-year row satisfies
\* energy_generated_mwh + unmet_demand_mwh = annual_demand_mwh.
C1_RowBalanceExact ==
    \A i \in 1..Len(per_year_rows) : RowBalanceError(per_year_rows[i]) = Zero

\* C1 (amended): the year's unrounded totals balance exactly, the total generated
\* is the sum of the sources' generation, and the row, whose three columns are
\* each rounded to 3 decimals, balances within 0.001.
C1_Balance ==
    /\ Dispatched =>
         /\ RAdd(year_energy_total, RMax(remaining_demand, Zero)) = annual_demand_mwh
         /\ year_energy_total = SumOver(sources, generated)
    /\ \A i \in 1..Len(per_year_rows) : RLe(RowBalanceError(per_year_rows[i]), Milli)

\* a year with unmet demand whose row does not balance exactly
C1_Witness ==
    /\ Dispatched
    /\ RLt(Zero, remaining_demand)
    /\ RLt(Zero, year_energy_total)
    /\ RowBalanceError(per_year_rows[Len(per_year_rows)]) = Milli

\* C2: in every year each source generates at most
\* live capacity x capacity_factor x 8760, the live capacity being the one after
\* that year's retirement and expansion, and is dispatched exactly once.
C2_WithinCapacity ==
    /\ Dispatched =>
         \A i \in 1..Len(sources) :
            LET s == sources[i]
            IN  RLe(generated[s.name],
                    RMul(RMul(current_capacities[s.name], s.capacity_factor), Int2R(8760)))
    /\ \A k \in 1..Len(per_year_rows) : \A i \in 1..Len(sources) :
         Cardinality({j \in 1..Len(per_source_rows) :
                         /\ per_source_rows[j].scenario = per_year_rows[k].scenario
                         /\ per_source_rows[j].year = per_year_rows[k].year
                         /\ per_source_rows[j].source = sources[i].name}) = 1

\* a year after a retirement in which a source runs at its full, reduced capacity
C2_Witness ==
    /\ Dispatched
    /\ \E i \in 1..Len(sources) :
         LET s == sources[i]
         IN  /\ RLt(Zero, retired_capacity[s.name])
             /\ RLt(Zero, generated[s.name])
             /\ RLt(current_capacities[s.name], s.capacity_mw)
             /\ generated[s.name] =
                   RMul(RMul(current_capacities[s.name], s.capacity_factor), Int2R(8760))

\* the entries of a ledger slice as a set of positions whose vintage is kept
LedgerSum(entries) == RSumSeq([i \in 1..Len(entries) |-> entries[i][2]])

\* C3: right after the retirement step every remaining vintage has
\* age < lifetime, and the capacity reported as retired is the capacity that left
\* the ledger in that step.
C3_Retirement ==
    [][(pc = "row" /\ pc' = "expand") =>
         \A i \in 1..Len(sources) :
            LET s == sources[i]
                before == vintages[s.name]
                after == vintages'[s.name]
            IN  /\ \A j \in 1..Len(after) : year' - after[j][1] < s.lifetime_years
                /\ \A j \in 1..Len(after) : \E k \in 1..Len(before) : before[k] = after[j]
                /\ retired_capacity'[s.name] = RSub(LedgerSum(before), LedgerSum(after))
      ]_vars

\* a retirement step that removes a vintage and keeps another
C3_Witness ==
    /\ pc = "expand"
    /\ \E i \in 1..Len(sources) : RLt(Zero, retired_capacity[sources[i].name])
    /\ \E i \in 1..Len(sources) : Len(vintages[sources[i].name]) > 0

\* C4: in a year whose required capacity exceeds the live total after
\* retirement the additions sum to the shortfall and each is one new vintage of
\* the current year; in any other year nothing is added and no vintage appended.
C4_Expansion ==
    [][(pc = "expand" /\ pc' = "dispatch") =>
         LET live == SumOver(sources, current_capacities)
         IN  IF RLt(live, required_capacity_mw)
             THEN /\ SumOver(sources, capacity_added') = RSub(required_capacity_mw, live)
                  /\ \A i \in 1..Len(sources) :
                        vintages'[sources[i].name] =
                           Append(vintages[sources[i].name],
                                  <<year, capacity_added'[sources[i].name]>>)
             ELSE /\ \A i \in 1..Len(sources) : capacity_added'[sources[i].name] = Zero
                  /\ vintages' = vintages
      ]_vars

\* an expansion shared by two sources that start with no capacity at all
C4_Witness ==
    /\ pc = "dispatch"
    /\ Len(sources) = 2
    /\ \A i \in 1..Len(sources) : sources[i].capacity_mw = Zero
    /\ \A i \in 1..Len(sources) : RLt(Zero, capacity_added[sources[i].name])
    /\ SumOver(sources, capacity_added) = required_capacity_mw


\* C7: every row of dispatch_storage has
\* 0 <= storage_delivered_mwh <= min(energy x soc, power x 8760) x efficiency,
\* and storage_delivered_mwh <= max(annual_demand_mwh - energy_generated_mwh, 0).
C7_DeliveredBounded ==
    pc \in {"storage_dispatched", "storage_done"} =>
        \A i \in 1..Len(storage_results) :
            LET r == storage_results[i]
                energy == RMul(storage.energy_capacity_mwh, storage.initial_soc_fraction)
                power == RMul(storage.power_capacity_mw, Int2R(8760))
                limit == IF RLe(energy, power) THEN energy ELSE power
                gap == RSub(r.annual_demand_mwh, r.energy_generated_mwh)
                deficit == IF RLe(gap, Zero) THEN Zero ELSE gap
            IN  /\ RLe(Zero, r.storage_delivered_mwh)
                /\ RLe(r.storage_delivered_mwh, RMul(limit, storage.round_trip_efficiency))
                /\ RLe(r.storage_delivered_mwh, deficit)

\* a lossy storage that delivers its whole limit against a larger deficit
C7_Witness ==
    /\ pc = "storage_dispatched"
    /\ RLt(storage.round_trip_efficiency, One)
    /\ \E i \in 1..Len(storage_results) :
         LET r == storage_results[i]
         IN  /\ RLt(deliverable_limit(storage), r.deficit_mwh)
             /\ RLt(Zero, r.storage_delivered_mwh)
             /\ r.storage_delivered_mwh =
                   RMul(deliverable_limit(storage), storage.round_trip_efficiency)

\* the end-to-end scenario: one source with capacity factor 1 that outlives the
\* horizon and has exactly the firm capacity the flat demand requires at a
\* reserve margin of 0.15, simulated for 2025 and 2026 and evaluated at target 0.15
C9_Setting ==
    /\ pc = "storage_done"
    /\ Len(sources) = 1
    /\ sources[1].capacity_factor = One
    /\ sources[1].lifetime_years > 1
    /\ reserve_margin = R(3, 20)
    /\ reserve_margin_target = R(3, 20)
    /\ sources[1].capacity_mw = required_capacity(annual_demand_mwh, R(3, 20))
    /\ Len(per_year_rows) = 2
    /\ \A i \in 1..2 :
         /\ per_year_rows[i].scenario = 1
         /\ per_year_rows[i].year = 2025 + (i - 1)
         /\ per_year_rows[i].annual_demand_mwh = Round3(annual_demand_mwh)

\* C9: in the end-to-end scenario the simulator reports (to 3 decimals)
\* required_firm_capacity_mw = (D / 8760) x 1.15, no unmet demand and no added
\* capacity in both years, and reliability_pass is true in both years.
C9_EndToEnd ==
    C9_Setting =>
        \A i \in 1..2 :
            /\ per_year_rows[i].required_firm_capacity_mw =
                  Round3(RMul(RDiv(annual_demand_mwh, Int2R(8760)), R(23, 20)))
            /\ per_year_rows[i].unmet_demand_mwh = Zero
            /\ per_source_rows[i].capacity_added_mw = Zero
            /\ storage_results[i].reliability_pass

\* the example of the specification, D = 1,000,000 MWh, does pass
C9_SpecExample ==
    (C9_Setting /\ annual_demand_mwh = Int2R(1000000)) =>
        \A i \in 1..2 :
            /\ per_year_rows[i].required_firm_capacity_mw = R(131279, 1000)
            /\ per_year_rows[i].unmet_demand_mwh = Zero
            /\ per_source_rows[i].capacity_added_mw = Zero
            /\ storage_results[i].reliability_pass

C9_SpecExampleReached == C9_Setting /\ annual_demand_mwh = Int2R(1000000)

-----------------------------------------------------------------------------
(* Properties of the optimizer                                             *)

\* a weight set has been scored and ranked
Ranked == opc \in {"loop", "written"} /\ windex > 0

\* row a comes before row b in the key (score, total_cost, total_emissions_t, scenario)
KeyBefore(a, b) ==
    \/ RLt(a.score, b.score)
    \/ a.score = b.score /\ RLt(a.total_cost, b.total_cost)
    \/ a.score = b.score /\ a.total_cost = b.total_cost
       /\ RLt(a.total_emissions_t, b.total_emissions_t)
    \/ a.score = b.score /\ a.total_cost = b.total_cost
       /\ a.total_emissions_t = b.total_emissions_t
       /\ NameLess(a.scenario, b.scenario)

Reorderings(s) ==
    {[i \in 1..Len(s) |-> s[f[i]]] : f \in Permutations(1..Len(s))}

Reverse(s) == [i \in 1..Len(s) |-> s[Len(s) + 1 - i]]

\* the ranking run_optimizer derives from the two input files for one weight set
RankingOf(supply_rows, storage_rows, weights) ==
    rank_scenarios(
        score_scenarios(
            apply_reliability_rule(
                apply_filters(
                    aggregate_scenarios(
                        filter_period(merge_inputs(supply_rows, storage_rows),
                                      ObjectiveConfig)),
                    filters),
                reliability),
            weights, reliability))

\* C5: the ranked table holds every surviving scenario once, in strictly
\* ascending order of the key (score, total_cost, total_emissions_t, scenario
\* name), with rank equal to the 1-based position (so ranks are 1..N); the
\* table is the same for every ordering of the scored rows, and for the input
\* files read in the opposite row order.
C5_Ranking ==
    Ranked =>
        LET scored == score_scenarios(summary, weight_sets[windex], reliability)
        IN  /\ Len(ranked) = Len(summary)
            /\ {ranked[i].scenario : i \in 1..Len(ranked)}
                   = {summary[i].scenario : i \in 1..Len(summary)}
            /\ \A i \in 1..Len(ranked) : ranked[i].rank = i
            /\ \A i, j \in 1..Len(ranked) :
                   i < j => KeyBefore(ranked[i], ranked[j])
            /\ \A p \in Reorderings(scored) : rank_scenarios(p) = ranked
            /\ RankingOf(Reverse(supply_totals), Reverse(storage_outputs),
                         weight_sets[windex]) = ranked
            /\ RankingOf(supply_totals, storage_outputs, weight_sets[windex]) = ranked

\* two scenarios tie on score and the cheaper one, whose name sorts later, ranks first
C5_Witness ==
    /\ opc = "written"
    /\ Len(ranked) >= 2
    /\ ranked[1].score = ranked[2].score
    /\ RLt(ranked[1].total_cost, ranked[2].total_cost)
    /\ NameLess(ranked[2].scenario, ranked[1].scenario)

\* a weight set the contract calls invalid
InvalidWeights(w) ==
    \/ w.cost_weight.n < 0
    \/ w.emissions_weight.n < 0
    \/ LET total == RAdd(w.cost_weight, w.emissions_weight)
       IN  RLt(R(1, 1000000), RSub(total, One)) \/ RLt(R(1, 1000000), RSub(One, total))

\* C6: no invalid weight set is ever scored; when the loop reaches an invalid
\* weight set, at any position, the run ends in the validation error with
\* nothing scored for it and nothing written; a run whose weight sets include
\* an invalid one never writes the ranked output.
C6_InvalidWeightsRejected ==
    /\ [](/\ scored_with = [i \in 1..windex |-> weight_sets[i].name]
          /\ \A i \in 1..windex : ~InvalidWeights(weight_sets[i])
          /\ (opc = "error_weights" => output = <<>>)
          /\ ((\E i \in 1..Len(weight_sets) : InvalidWeights(weight_sets[i]))
                 => opc # "written" /\ output = <<>>))
    /\ [][(opc = "loop" /\ windex < Len(weight_sets)
           /\ InvalidWeights(weight_sets[windex + 1]))
          => (opc' = "error_weights"
              /\ UNCHANGED <<scored_with, ranked, results, output>>)]_vars

\* the second weight set is invalid: the run stops there after scoring the first
C6_Witness ==
    /\ opc = "error_weights"
    /\ windex = 1
    /\ InvalidWeights(weight_sets[2])
    /\ Len(results) = 1
    /\ output = <<>>

\* C8: for every processed weight set with at least two surviving scenarios,
\* every row of its top-K table carries sensitivity_gap = score of rank 2 minus
\* score of rank 1 in the full ranking, and sensitivity_flag is true exactly
\* when that gap is <= the configured epsilon; a gap of 0.01 under the default
\* epsilon 0.02 gives the flag.
C8_Sensitivity ==
    opc \in {"loop", "written", "error_weights"} =>
        \A i \in 1..Len(results) :
            LET full == rank_scenarios(
                            score_scenarios(summary, weight_sets[i], reliability))
            IN  Len(full) >= 2 =>
                    \A k \in 1..Len(results[i]) :
                        LET row == results[i][k]
                            gap == RSub(full[2].score, full[1].score)
                        IN  /\ row.sensitivity_gap = gap
                            /\ row.sensitivity_flag
                                   <=> RLe(gap, selection.sensitivity_epsilon)
                            /\ (gap = R(1, 100)
                                /\ selection.sensitivity_epsilon = SENSITIVITY_EPSILON)
                                   => row.sensitivity_flag

\* two scenarios 0.01 apart, default epsilon, and only the best one is kept
C8_Witness ==
    /\ opc = "written"
    /\ Len(ranked) = 2
    /\ selection.top_k = 1
    /\ selection.sensitivity_epsilon = SENSITIVITY_EPSILON
    /\ Len(output) = 1
    /\ output[1].sensitivity_gap = R(1, 100)
    /\ output[1].sensitivity_flag

-----------------------------------------------------------------------------
(* Properties of the demand projection                                     *)

NonNegativeGrowth(args) ==
    /\ RLe(Zero, args.base_growth_rate)
    /\ RLe(Zero, args.population_growth)
    /\ RLe(Zero, args.electrification_uplift)

\* C10: a projection that returns for non-negative base_growth_rate,
\* population_growth and electrification_uplift has exactly one entry for each
\* year of [start_year, end_year] and never decreases from one year to the next.
C10_NonDecreasing ==
    (dpc = "done" /\ NonNegativeGrowth(demand_args)) =>
        /\ DOMAIN projections = demand_args.start_year..demand_args.end_year
        /\ \A y \in DOMAIN projections :
               (y + 1) \in DOMAIN projections
                   => RLe(projections[y], projections[y + 1])

-----------------------------------------------------------------------------
(* Properties of the storage and reliability evaluation                    *)

\* C11: in every row of dispatch_storage followed by compute_reliability,
\* unmet_demand_mwh = max(deficit - storage_delivered_mwh, 0) with
\* deficit = max(annual_demand_mwh - energy_generated_mwh, 0),
\* reserve_margin = (total_capacity_mw - annual_demand_mwh/8760) / (annual_demand_mwh/8760),
\* and reliability_pass is true exactly when reserve_margin >= target and
\* unmet_demand_mwh <= 0.
C11_ReliabilityPass ==
    pc = "storage_done" =>
        \A i \in 1..Len(storage_results) :
            LET r == storage_results[i]
                average == RDiv(r.annual_demand_mwh, Int2R(8760))
                margin == RDiv(RSub(r.total_capacity_mw, average), average)
                gap == RSub(r.annual_demand_mwh, r.energy_generated_mwh)
                deficit == IF RLe(gap, Zero) THEN Zero ELSE gap
                left == RSub(deficit, r.storage_delivered_mwh)
                unmet == IF RLe(left, Zero) THEN Zero ELSE left
            IN  /\ r.unmet_demand_mwh = unmet
                /\ r.reserve_margin = margin
                /\ r.reliability_pass
                       <=> (RLe(reserve_margin_target, margin) /\ RLe(unmet, Zero))

\* one year passes, and another year has the margin but is left with unmet demand
C11_Witness ==
    /\ pc = "storage_done"
    /\ \E i \in 1..Len(storage_results) : storage_results[i].reliability_pass
    /\ \E i \in 1..Len(storage_results) :
          /\ RLe(reserve_margin_target, storage_results[i].reserve_margin)
          /\ RLt(Zero, storage_results[i].storage_delivered_mwh)
          /\ RLt(Zero, storage_results[i].unmet_demand_mwh)
          /\ ~storage_results[i].reliability_pass

-----------------------------------------------------------------------------
(* Properties of the aggregation, the filters and the scoring              *)

InObjectivePeriod(r) == r.year >= 2025 /\ r.year <= 2050

\* the supply rows and the storage rows of one scenario inside the window
SupplyYears(scen) ==
    SelectSeq(supply_totals, LAMBDA r : r.scenario = scen /\ InObjectivePeriod(r))

StorageYears(scen) ==
    SelectSeq(storage_outputs, LAMBDA r : r.scenario = scen /\ InObjectivePeriod(r))

\* every year of the scenario inside the window has its storage row
CompleteYears(scen) ==
    \A i \in 1..Len(SupplyYears(scen)) :
        \E j \in 1..Len(StorageYears(scen)) :
            StorageYears(scen)[j].year = SupplyYears(scen)[i].year

\* C12: the summary has one row for each scenario with a row inside the
\* objective window; its total_cost and total_emissions_t are the sums over the
\* scenario's years in the window; when every such year has its storage row,
\* unmet_demand_mwh is the sum, reserve_margin_min the minimum and
\* reliability_pass the conjunction over those years; and a scenario with a
\* year whose reliability_pass is false always has summary reliability_pass false.
C12_Aggregation ==
    opc = "aggregated" =>
        /\ \A i, j \in 1..Len(summary) :
               summary[i].scenario = summary[j].scenario => i = j
        /\ {summary[i].scenario : i \in 1..Len(summary)}
               = {supply_totals[i].scenario :
                     i \in {k \in 1..Len(supply_totals) :
                               InObjectivePeriod(supply_totals[k])}}
        /\ \A i \in 1..Len(summary) :
               LET s == summary[i]
                   sup == SupplyYears(s.scenario)
                   sto == StorageYears(s.scenario)
               IN  /\ s.total_cost = RSumSeq([k \in 1..Len(sup) |-> sup[k].total_cost])
                   /\ s.total_emissions_t
                          = RSumSeq([k \in 1..Len(sup) |-> sup[k].total_emissions_t])
                   /\ CompleteYears(s.scenario) =>
                          /\ s.unmet_demand_mwh
                                 = RSumSeq([k \in 1..Len(sto) |-> sto[k].unmet_demand_mwh])
                          /\ \A k \in 1..Len(sto) :
                                 RLe(s.reserve_margin_min, sto[k].reserve_margin)
                          /\ \E k \in 1..Len(sto) :
                                 s.reserve_margin_min = sto[k].reserve_margin
                          /\ s.reliability_pass
                                 <=> \A k \in 1..Len(sto) : sto[k].reliability_pass
                   /\ (\E k \in 1..Len(sto) : ~sto[k].reliability_pass)
                          => ~s.reliability_pass

\* a scenario with a passing and a failing year in the window, next to a
\* scenario that also has a row outside the window
C12_Witness ==
    /\ opc = "aggregated"
    /\ \E i \in 1..Len(summary) :
          /\ Len(SupplyYears(summary[i].scenario)) = 2
          /\ \E k \in 1..2 : StorageYears(summary[i].scenario)[k].reliability_pass
          /\ ~summary[i].reliability_pass
          /\ summary[i].unmet_demand_mwh = Int2R(5)
          /\ summary[i].reserve_margin_min = R(1, 10)
    /\ \E i \in 1..Len(supply_totals) : ~InObjectivePeriod(supply_totals[i])

\* a summary row meets the reliability rule of the configuration
MeetsRule(r) ==
    /\ r.reliability_pass
    /\ ~IsNA(r.reserve_margin_min)
    /\ RLe(reliability.min_reserve_margin, r.reserve_margin_min)
    /\ RLe(r.unmet_demand_mwh, reliability.max_unmet_demand_mwh)

ScenariosOf(table) == {table[i].scenario : i \in 1..Len(table)}

\* C13: in hard mode apply_reliability_rule keeps exactly the scenarios with
\* reliability_pass true, reserve_margin_min >= min_reserve_margin and
\* unmet_demand_mwh <= max_unmet_demand_mwh, in their order, and the run ends
\* in an error when none is kept; afterwards only kept scenarios are scored,
\* ranked or written.
C13_HardMode ==
    /\ [][(opc = "filtered" /\ reliability.mode = "hard") =>
             LET kept == {i \in 1..Len(summary) : MeetsRule(summary[i])}
             IN  IF kept = {}
                 THEN opc' = "error_reliability" /\ ranked' = <<>> /\ output' = <<>>
                 ELSE /\ opc' = "loop"
                      /\ ScenariosOf(summary') = {summary[i].scenario : i \in kept}
                      /\ Len(summary') = Cardinality(kept)
                      /\ \A i, j \in 1..Len(summary') :
                             i < j => NameLess(summary'[i].scenario, summary'[j].scenario)]_vars
    /\ []((reliability.mode = "hard" /\ opc \in {"loop", "written", "error_weights"}) =>
             /\ \A i \in 1..Len(summary) : MeetsRule(summary[i])
             /\ ScenariosOf(ranked) \subseteq ScenariosOf(summary)
             /\ \A k \in 1..Len(results) :
                    ScenariosOf(results[k]) \subseteq ScenariosOf(summary)
             /\ ScenariosOf(output) \subseteq ScenariosOf(summary))

\* of two scenarios one is removed for its reserve margin alone, the other is ranked
C13_Witness ==
    /\ opc = "written"
    /\ reliability.mode = "hard"
    /\ Len(ranked) = 1
    /\ \E i \in 1..Len(storage_outputs) :
          /\ storage_outputs[i].scenario \notin ScenariosOf(ranked)
          /\ InObjectivePeriod(storage_outputs[i])
          /\ storage_outputs[i].reliability_pass
          /\ storage_outputs[i].unmet_demand_mwh = Zero
          /\ RLt(storage_outputs[i].reserve_margin, reliability.min_reserve_margin)
          /\ Len(StorageYears(storage_outputs[i].scenario)) = 1
    /\ IsNA(filters.max_total_cost) /\ IsNA(filters.max_total_emissions_t)

\* the summary row of a scenario
SummaryRow(scen) == summary[CHOOSE i \in 1..Len(summary) : summary[i].scenario = scen]

\* the smallest and the largest total_cost / total_emissions_t of the summary
LeastCost == CHOOSE v \in {summary[i].total_cost : i \in 1..Len(summary)} :
                 \A i \in 1..Len(summary) : RLe(v, summary[i].total_cost)
MostCost == CHOOSE v \in {summary[i].total_cost : i \in 1..Len(summary)} :
                \A i \in 1..Len(summary) : RLe(summary[i].total_cost, v)
LeastEmissions == CHOOSE v \in {summary[i].total_emissions_t : i \in 1..Len(summary)} :
                      \A i \in 1..Len(summary) : RLe(v, summary[i].total_emissions_t)
MostEmissions == CHOOSE v \in {summary[i].total_emissions_t : i \in 1..Len(summary)} :
                     \A i \in 1..Len(summary) : RLe(summary[i].total_emissions_t, v)

\* min-max position of v between lo and hi, 0 when they coincide
Normalized(v, lo, hi) == IF lo = hi THEN Zero ELSE RDiv(RSub(v, lo), RSub(hi, lo))

WeightedSum(scen, w) ==
    RAdd(RMul(w.cost_weight,
              Normalized(SummaryRow(scen).total_cost, LeastCost, MostCost)),
         RMul(w.emissions_weight,
              Normalized(SummaryRow(scen).total_emissions_t, LeastEmissions, MostEmissions)))

ExpectedScore(scen, w) ==
    IF reliability.mode = "penalty" /\ ~SummaryRow(scen).reliability_ok
    THEN RAdd(WeightedSum(scen, w), w.reliability_penalty)
    ELSE WeightedSum(scen, w)

\* C14: in penalty mode apply_reliability_rule keeps every scenario and gives
\* each a boolean reliability_ok; every score, in the full ranking and in the
\* top-K tables, is cost_weight x cost_norm + emissions_weight x emissions_norm,
\* plus the weight set's reliability_penalty exactly when the mode is penalty
\* and the scenario's reliability_ok is false.
C14_Score ==
    /\ [][(opc = "filtered" /\ reliability.mode = "penalty") =>
             /\ opc' = "loop"
             /\ Len(summary') = Len(summary)
             /\ \A i \in 1..Len(summary) :
                    /\ summary'[i].scenario = summary[i].scenario
                    /\ summary'[i].reliability_ok \in BOOLEAN]_vars
    /\ [](Ranked =>
             /\ \A i \in 1..Len(ranked) :
                    ranked[i].score = ExpectedScore(ranked[i].scenario, weight_sets[windex])
             /\ \A k \in 1..Len(results) : \A i \in 1..Len(results[k]) :
                    results[k][i].score
                        = ExpectedScore(results[k][i].scenario, weight_sets[k]))

\* penalty mode with a penalty of 0.25: a scenario that fails the rule is
\* kept and ranked with the penalty in its score, next to one that meets it
C14_Witness ==
    /\ opc = "written"
    /\ reliability.mode = "penalty"
    /\ weight_sets[windex].reliability_penalty = R(1, 4)
    /\ Len(ranked) = 2
    /\ \E i, j \in 1..2 :
          /\ ~ranked[i].reliability_ok
          /\ ranked[j].reliability_ok
          /\ ranked[i].score
                 = RAdd(WeightedSum(ranked[i].scenario, weight_sets[windex]), R(1, 4))
          /\ ranked[j].score = WeightedSum(ranked[j].scenario, weight_sets[windex])
          /\ RLt(Zero, ranked[j].score)

\* C15: cost_norm and emissions_norm of every ranked row lie in [0, 1] and are
\* the min-max positions among the surviving scenarios (the summary after the
\* caps and the reliability rule): 0 for a scenario at the minimum, 1 for one
\* at the maximum when the maximum exceeds the minimum, and 0 for every
\* scenario when all surviving values coincide, a single survivor included.
C15_Normalization ==
    Ranked =>
        /\ ScenariosOf(ranked) = ScenariosOf(summary)
        /\ \A i \in 1..Len(ranked) :
               LET r == ranked[i]
               IN  /\ RLe(Zero, r.cost_norm) /\ RLe(r.cost_norm, One)
                   /\ RLe(Zero, r.emissions_norm) /\ RLe(r.emissions_norm, One)
                   /\ r.total_cost = LeastCost => r.cost_norm = Zero
                   /\ (r.total_cost = MostCost /\ RLt(LeastCost, MostCost))
                          => r.cost_norm = One
                   /\ r.total_emissions_t = LeastEmissions => r.emissions_norm = Zero
                   /\ (r.total_emissions_t = MostEmissions
                       /\ RLt(LeastEmissions, MostEmissions))
                          => r.emissions_norm = One
                   /\ r.cost_norm = Normalized(r.total_cost, LeastCost, MostCost)
                   /\ r.emissions_norm
                          = Normalized(r.total_emissions_t, LeastEmissions, MostEmissions)

\* the dearer of two scenarios is the only survivor of the emissions cap and
\* gets cost_norm 0; without the cap it would have been the maximum
C15_Witness ==
    /\ opc = "written"
    /\ Len(ranked) = 1
    /\ ~IsNA(filters.max_total_emissions_t)
    /\ ranked[1].cost_norm = Zero
    /\ ranked[1].emissions_norm = Zero
    /\ \E i \in 1..Len(supply_totals) :
          /\ InObjectivePeriod(supply_totals[i])
          /\ supply_totals[i].scenario # ranked[1].scenario
          /\ RLt(supply_totals[i].total_cost, ranked[1].total_cost)
          /\ Len(SupplyYears(supply_totals[i].scenario)) = 1

\* what the input files say about a scenario inside the objective window
WindowScenarios ==
    {supply_totals[i].scenario :
        i \in {k \in 1..Len(supply_totals) : InObjectivePeriod(supply_totals[k])}}

CostOf(scen) ==
    RSumSeq([k \in 1..Len(SupplyYears(scen)) |-> SupplyYears(scen)[k].total_cost])

EmissionsOf(scen) ==
    RSumSeq([k \in 1..Len(SupplyYears(scen)) |-> SupplyYears(scen)[k].total_emissions_t])

WithinCaps(scen) ==
    /\ IsNA(filters.max_total_emissions_t)
       \/ RLe(EmissionsOf(scen), filters.max_total_emissions_t)
    /\ IsNA(filters.max_total_cost) \/ RLe(CostOf(scen), filters.max_total_cost)

RuleMet(scen) ==
    LET sto == StorageYears(scen)
    IN  /\ sto # <<>>
        /\ \A k \in 1..Len(sto) :
               /\ sto[k].reliability_pass
               /\ RLe(reliability.min_reserve_margin, sto[k].reserve_margin)
        /\ RLe(RSumSeq([k \in 1..Len(sto) |-> sto[k].unmet_demand_mwh]),
               reliability.max_unmet_demand_mwh)

Survivors ==
    {s \in WindowScenarios : WithinCaps(s) /\ (reliability.mode = "hard" => RuleMet(s))}

\* the error the filters of the run call for, "none" when they call for none
FilterError ==
    IF WindowScenarios = {} THEN "error_period"
    ELSE IF {s \in WindowScenarios : WithinCaps(s)} = {} THEN "error_filters"
    ELSE IF Survivors = {} THEN "error_reliability"
    ELSE "none"

RunEnded ==
    opc \in {"written", "error_period", "error_filters", "error_reliability",
             "error_weights"}

\* every weight set contributes min(top_k, N) rows, ranked 1..min(top_k, N), in
\* the order of the weight sets, with totals taken from the window's rows only
OutputShape ==
    LET K == Min2(selection.top_k, Cardinality(Survivors))
    IN  /\ K >= 1
        /\ Len(output) = Len(weight_sets) * K
        /\ \A k \in 1..Len(weight_sets) : \A j \in 1..K :
               LET row == output[(k - 1) * K + j]
               IN  /\ row.rank = j
                   /\ row.weight_set = weight_sets[k].name
                   /\ row.scenario \in Survivors
                   /\ row.total_cost = CostOf(row.scenario)
                   /\ row.total_emissions_t = EmissionsOf(row.scenario)

\* C18 as stated: a run ends in the error of the period filter, the caps or the
\* hard reliability rule when that filter leaves nothing, and in every other
\* case it writes min(top_k, N) ranked rows for every weight set.
C18_AsStated ==
    RunEnded =>
        IF FilterError # "none"
        THEN opc = FilterError /\ output = <<>>
        ELSE opc = "written" /\ OutputShape

\* C18: a run ends in the error of the period filter, the caps or the hard
\* reliability rule when that filter leaves nothing; otherwise, when every
\* weight set is valid, it writes min(top_k, N) rows ranked 1..min(top_k, N)
\* for every weight set, in the order of the weight sets, with totals from the
\* rows of 2025..2050 only; a written ranking is never empty.
C18_NoEmptyRanking ==
    /\ opc = "written" => Len(output) >= 1
    /\ RunEnded =>
           IF FilterError # "none"
           THEN opc = FilterError /\ output = <<>>
           ELSE IF \E k \in 1..Len(weight_sets) : InvalidWeights(weight_sets[k])
                THEN opc = "error_weights" /\ output = <<>>
                ELSE opc = "written" /\ OutputShape

\* three weight sets, two surviving scenarios and top_k = 1: three rows, one
\* per weight set; one of the scenarios also has a row after 2050
C18_Witness ==
    /\ opc = "written"
    /\ Len(weight_sets) = 3
    /\ selection.top_k = 1
    /\ Cardinality(Survivors) = 2
    /\ Len(output) = 3
    /\ \E i \in 1..Len(supply_totals) :
          /\ supply_totals[i].year > 2050
          /\ supply_totals[i].scenario = output[1].scenario

-----------------------------------------------------------------------------
(* Properties of the capacity total and of the merit order                 *)

\* the per-source rows of the year and scenario of a per-year row
SourceRowsOf(yr_row) ==
    SelectSeq(per_source_rows,
              LAMBDA r : r.year = yr_row.year /\ r.scenario = yr_row.scenario)

\* C19: once a year is dispatched, total_capacity_mw is the sum of the live
\* capacities the dispatch used, and in every per-year row of a fleet with at
\* least one source total_capacity_mw is within rounding of the sum of the
\* capacity_mw of that year's per-source rows and is at least
\* required_firm_capacity_mw, also in a year in which capacity was added.
C19_TotalCapacity ==
    Dispatched =>
        /\ total_capacity_mw = SumOver(sources, current_capacities)
        /\ \A i \in 1..Len(per_year_rows) :
               LET row == per_year_rows[i]
                   parts == SourceRowsOf(row)
                   listed == RSumSeq([k \in 1..Len(parts) |-> parts[k].capacity_mw])
               IN  /\ RLe(RAbs(RSub(row.total_capacity_mw, listed)),
                          RMul(Int2R(Len(parts) + 1), R(1, 2000)))
                   /\ Len(sources) >= 1
                          => RLe(row.required_firm_capacity_mw, row.total_capacity_mw)

\* source i of the fleet is dispatched before source j
MeritBefore(i, j) ==
    \/ RLt(sources[i].opex_per_mwh, sources[j].opex_per_mwh)
    \/ sources[i].opex_per_mwh = sources[j].opex_per_mwh
       /\ RLt(sources[i].emissions_t_per_mwh, sources[j].emissions_t_per_mwh)
    \/ sources[i].opex_per_mwh = sources[j].opex_per_mwh
       /\ sources[i].emissions_t_per_mwh = sources[j].emissions_t_per_mwh
       /\ i < j

SourceIndex(nm) == CHOOSE i \in 1..Len(sources) : sources[i].name = nm

\* the annual energy capacity of source i at its live capacity
EnergyCapacity(i) ==
    RMul(RMul(current_capacities[sources[i].name], sources[i].capacity_factor),
         Int2R(8760))

\* C20: in a dispatched year, a source that generated less than its annual
\* energy capacity is followed in the order (opex_per_mwh, emissions_t_per_mwh)
\* only by sources that generated 0, and demand is left over only when every
\* source generated its full annual energy capacity; the per-source rows of
\* every year and scenario come in that same order.
C20_MeritOrder ==
    Dispatched =>
        /\ \A i, j \in 1..Len(sources) :
               (MeritBefore(i, j) /\ RLt(generated[sources[i].name], EnergyCapacity(i)))
                   => generated[sources[j].name] = Zero
        /\ RLt(Zero, remaining_demand) =>
               \A i \in 1..Len(sources) : generated[sources[i].name] = EnergyCapacity(i)
        /\ \A k \in 1..Len(per_year_rows) :
               LET parts == SourceRowsOf(per_year_rows[k])
               IN  /\ Len(parts) = Len(sources)
                   /\ \A a, b \in 1..Len(parts) :
                          a < b => MeritBefore(SourceIndex(parts[a].source),
                                               SourceIndex(parts[b].source))

\* two sources with the same operating cost: the cleaner one, listed second in
\* the fleet, runs at full capacity and the other one covers part of the rest
C20_Witness ==
    /\ Dispatched
    /\ Len(sources) = 2
    /\ sources[1].opex_per_mwh = sources[2].opex_per_mwh
    /\ MeritBefore(2, 1)
    /\ RLt(Zero, generated[sources[2].name])
    /\ generated[sources[2].name] = EnergyCapacity(2)
    /\ RLt(Zero, generated[sources[1].name])
    /\ RLt(generated[sources[1].name], EnergyCapacity(1))

-----------------------------------------------------------------------------
(* Properties of the stages' validation.                                   *)

\* the parameter domains, in the words of the contract
DemandOutOfDomain(args) ==
    \/ args.end_year < args.start_year
    \/ RLe(args.base_total_mwh, Zero)

SupplyOutOfDomain == demand_df_empty \/ RLt(reserve_margin, Zero)

StorageOutOfDomain(st) ==
    \/ RLt(st.initial_soc_fraction, Zero)
    \/ RLt(One, st.initial_soc_fraction)
    \/ ~(RLt(Zero, st.round_trip_efficiency) /\ RLe(st.round_trip_efficiency, One))

\* what a stage's first step does with its parameters
ValidationStep ==
    /\ (dpc = "start" /\ dpc' # dpc) =>
           (/\ ((dpc' = "error") <=> DemandOutOfDomain(demand_args))
            /\ ((dpc' # "error") <=> (dpc' = "loop")))
    /\ (pc = "start" /\ pc' # pc) =>
           (/\ ((pc' = "error") <=> SupplyOutOfDomain)
            /\ ((pc' # "error") <=> (pc' = "scenario")))
    /\ (pc = "supply_done" /\ pc' # pc) =>
           (/\ ((pc' = "error") <=> StorageOutOfDomain(storage'))
            /\ ((pc' # "error") <=>
                   (/\ pc' = "storage_dispatched"
                    /\ Len(storage_results') = Len(per_year_rows)
                    /\ Len(storage_results') > 0)))

\* C17: each stage rejects exactly the parameters outside its domain, and
\* rejects them before it has produced an output row: project_annual_demand
\* fails iff end_year < start_year or base_total_mwh <= 0 and then holds no
\* projection; simulate_supply_mix fails iff the demand table is empty or
\* reserve_margin < 0 and then holds no per-source and no per-year row;
\* dispatch_storage fails iff initial_soc_fraction is outside [0,1] or
\* round_trip_efficiency is outside (0,1] and then holds no result row.
\* Parameters inside the domains pass the checks and the stage goes on to
\* its rows.
C17_Validation ==
    /\ [][ValidationStep]_vars
    /\ [](dpc = "error" => projections = NoProjections)
    /\ [](dpc = "done" =>
              (/\ ~DemandOutOfDomain(demand_args)
               /\ DOMAIN projections = demand_args.start_year..demand_args.end_year))
    /\ []((pc = "error" /\ SupplyOutOfDomain) =>
              (per_source_rows = <<>> /\ per_year_rows = <<>>))
    /\ []((pc = "error" /\ StorageOutOfDomain(storage)) => storage_results = <<>>)
    /\ [](pc = "supply_done" => (~SupplyOutOfDomain /\ per_year_rows # <<>>))

\* dispatch_storage has rejected a round-trip efficiency of exactly zero, the
\* open end of (0,1], for a supply table that has rows
C17_Witness ==
    /\ pc = "error"
    /\ per_year_rows # <<>>
    /\ storage.round_trip_efficiency = Zero
    /\ RLe(Zero, storage.initial_soc_fraction)
    /\ RLe(storage.initial_soc_fraction, One)
    /\ storage_results = <<>>

-----------------------------------------------------------------------------
(* Properties of a pipeline run.                                           *)

\* no stage after the one that raised has been entered
NoLaterStage ==
    /\ dpc # "done" => pc = "idle"
    /\ pc # "storage_done" => opc = "idle"
    /\ opc # "written" => output = <<>>

\* C16: a pipeline run that has failed has written none of its output tables
\* (demand projections, per-source supply, supply totals, storage results,
\* optimizer ranking), and no stage after the failing one has been executed.
C16_NoPartialPersistence ==
    ppc = "failed" => (files = {} /\ NoLaterStage)

-----------------------------------------------------------------------------
(* Properties of the growth weights and of the capacity ledger.            *)

\* the capacity the source list was given for the source named nm
InitialCapacity(nm) == base_sources(sources, nm).capacity_mw

TotalInitialCapacity ==
    RSumSeq([i \in 1..Len(sources) |-> sources[i].capacity_mw])

\* the share of a shortfall the source named nm receives
InitialShare(nm) ==
    IF TotalInitialCapacity = Zero
    THEN R(1, Len(sources))
    ELSE RDiv(InitialCapacity(nm), TotalInitialCapacity)

\* C21: once built, the growth weights are each source's share of the total
\* initial capacity (1/n each when that total is zero) in every year of every
\* scenario; in an expansion year each source is given shortfall x share,
\* whatever the live fleet mix has become, as one vintage of the current year.
C21_GrowthWeights ==
    /\ [](pc \in {"scenario", "row", "expand", "dispatch", "supply_done"} =>
              \A i \in 1..Len(sources) :
                  growth_weights[sources[i].name] = InitialShare(sources[i].name))
    /\ [][(pc = "expand" /\ pc' = "dispatch") =>
             LET live == SumOver(sources, current_capacity(vintages))
                 shortfall == RSub(required_capacity_mw, live)
             IN  RLt(Zero, shortfall) =>
                    \A i \in 1..Len(sources) :
                       LET nm == sources[i].name
                       IN  /\ capacity_added'[nm] = RMul(shortfall, InitialShare(nm))
                           /\ vintages'[nm] =
                                 Append(vintages[nm],
                                        <<year, RMul(shortfall, InitialShare(nm))>>)
      ]_vars

\* an expansion in a later year of a scenario, after a retirement has left the
\* live mix of two equally sized sources unequal: both still get half
C21_Witness ==
    /\ pc = "dispatch"
    /\ Len(sources) = 2
    /\ RowsOfScenario(per_year_rows, scenario) > 0
    /\ InitialShare(sources[1].name) = R(1, 2)
    /\ RLt(Zero, TotalInitialCapacity)
    /\ RLt(Zero, capacity_added[sources[1].name])
    /\ capacity_added[sources[1].name] = capacity_added[sources[2].name]
    /\ current_capacities[sources[1].name] # current_capacities[sources[2].name]

-----------------------------------------------------------------------------
(* Properties of the reliability rule.                                     *)

\* C22: once the reliability rule is applied, a scenario with a year of the
\* objective window that has no storage row (so no reliability_pass value
\* for that year) has reliability_ok false; in hard mode it is therefore not
\* among the kept scenarios.
C22_MissingFlagFails ==
    opc \in {"loop", "written", "error_weights"} =>
        \A i \in 1..Len(summary) :
            ~CompleteYears(summary[i].scenario) => ~summary[i].reliability_ok

\* the vintages of a ledger that are / are not retired in the year yr
DueEntries(entries, lifetime, yr) ==
    SelectSeq(entries, LAMBDA e : yr - e[1] >= lifetime)

KeptEntries(entries, lifetime, yr) ==
    SelectSeq(entries, LAMBDA e : yr - e[1] < lifetime)

\* what the retirement step of a year does to the ledger of every source
RetirementStep ==
    (pc = "row" /\ pc' = "expand") =>
        \A i \in 1..Len(sources) :
            LET nm == sources[i].name
                life == sources[i].lifetime_years
                first == RowsOfScenario(per_year_rows, scenario) = 0
            IN  /\ first => vintages[nm] = << <<year', sources[i].capacity_mw>> >>
                /\ retired_capacity'[nm] = LedgerSum(DueEntries(vintages[nm], life, year'))
                /\ vintages'[nm] = KeptEntries(vintages[nm], life, year')
                /\ current_capacities'[nm] =
                       RSub(current_capacities[nm], retired_capacity'[nm])
                /\ first => retired_capacity'[nm] = Zero

\* what the expansion step of a year does to the live capacity of every source
ExpansionStep ==
    (pc = "expand" /\ pc' = "dispatch") =>
        \A i \in 1..Len(sources) :
            LET nm == sources[i].name
            IN  /\ current_capacities'[nm] =
                       RAdd(current_capacities[nm], capacity_added'[nm])
                /\ retired_capacity'[nm] = retired_capacity[nm]

\* C23: per source, the live capacity of a year is the live capacity of the
\* previous simulated year minus what the year retires plus what it adds; a
\* vintage is retired in the first simulated year in which its age reaches the
\* lifetime, leaves the ledger then and is never counted again; the ledger of
\* a scenario starts with the one base vintage, dated at the scenario's first
\* simulated year, whatever an earlier scenario left behind.
C23_Bookkeeping ==
    /\ [][RetirementStep]_vars
    /\ [][ExpansionStep]_vars
    /\ [][(pc = "dispatch" \/ (pc = "row" /\ pc' = "supply_done")) =>
             UNCHANGED <<current_capacities, vintages>>]_vars
    /\ [](pc \in {"row", "expand", "dispatch", "supply_done"} =>
             \A i \in 1..Len(sources) :
                 LET nm == sources[i].name
                 IN  /\ current_capacities[nm] = LedgerSum(vintages[nm])
                     /\ \A j \in 1..Len(vintages[nm]) :
                            /\ vintages[nm][j][1] <= year \/ pc = "row"
                            /\ pc \in {"expand", "dispatch"} =>
                                   year - vintages[nm][j][1] < sources[i].lifetime_years)

\* a later year of a scenario in which a source both loses a vintage and is
\* given a new one
C23_Witness ==
    /\ pc = "dispatch"
    /\ RowsOfScenario(per_year_rows, scenario) > 0
    /\ \E i \in 1..Len(sources) :
           /\ RLt(Zero, retired_capacity[sources[i].name])
           /\ RLt(Zero, capacity_added[sources[i].name])
           /\ current_capacities[sources[i].name] = capacity_added[sources[i].name]

\* the weight set just scored carries the default reliability_penalty of 1.0
\* and the rule ran in penalty mode
DefaultPenaltyRanked ==
    /\ Ranked
    /\ reliability.mode = "penalty"
    /\ weight_sets[windex].reliability_penalty = One

\* C24 as stated: in penalty mode with the default reliability_penalty of 1.0
\* and a valid weight set, no scenario with reliability_ok = false is ranked
\* ahead of a scenario with reliability_ok = true.
C24_PenaltyOrder ==
    DefaultPenaltyRanked =>
        \A i, j \in 1..Len(ranked) :
            i < j => ~(~ranked[i].reliability_ok /\ ranked[j].reliability_ok)

\* C24, amended: in penalty mode with the default reliability_penalty of 1.0
\* and a valid weight set, a scenario with reliability_ok = false is ranked
\* ahead of a scenario with reliability_ok = true only when the weighted sum
\* cost_weight x cost_norm + emissions_weight x emissions_norm of the passing
\* scenario is at least 1; in every other case the failing one comes later.
C24_PenaltyOrderUnlessWorst ==
    DefaultPenaltyRanked =>
        \A i, j \in 1..Len(ranked) :
            (i < j /\ ~ranked[i].reliability_ok /\ ranked[j].reliability_ok) =>
                RLe(One, WeightedSum(ranked[j].scenario, weight_sets[windex]))

\* a failing scenario, cheapest of the two, ties at score 1 with a passing
\* one whose weighted sum is 1 and is ranked first by the total_cost key
C24_Witness ==
    /\ DefaultPenaltyRanked
    /\ Len(ranked) = 2
    /\ ~ranked[1].reliability_ok
    /\ ranked[2].reliability_ok
    /\ ranked[1].score = ranked[2].score
    /\ RLt(ranked[1].total_cost, ranked[2].total_cost)

\* the enabled thresholds of the rule, without the aggregated flag
ThresholdsMet(r, rel) ==
    /\ IsNA(rel.min_reserve_margin)
       \/ (~IsNA(r.reserve_margin_min)
           /\ RLe(rel.min_reserve_margin, r.reserve_margin_min))
    /\ IsNA(rel.max_unmet_demand_mwh)
       \/ RLe(r.unmet_demand_mwh, rel.max_unmet_demand_mwh)

\* C25: when require_reliability_pass is false, as run_pipeline sets it, the
\* aggregated reliability_pass flag has no influence on reliability_ok, which
\* is then exactly the conjunction of the enabled thresholds
\* reserve_margin_min >= min_reserve_margin and
\* unmet_demand_mwh <= max_unmet_demand_mwh.
C25_FlagIgnored ==
    (opc \in {"loop", "written", "error_weights"}
        /\ ~reliability.require_reliability_pass) =>
        \A i \in 1..Len(summary) :
            summary[i].reliability_ok <=> ThresholdsMet(summary[i], reliability)

-----------------------------------------------------------------------------
(* Properties of storage against a generation deficit                      *)

\* min(energy_capacity_mwh x initial_soc_fraction, power_capacity_mw x 8760)
\* of the storage in use, from its parameters alone
DeliverableOfStorage ==
    LET energy == RMul(storage.energy_capacity_mwh, storage.initial_soc_fraction)
        power == RMul(storage.power_capacity_mw, Int2R(8760))
    IN  IF RLe(energy, power) THEN energy ELSE power

\* the year of row r has a generation deficit
DeficitYear(r) == RLt(r.energy_generated_mwh, r.annual_demand_mwh)

GapOf(r) == RSub(r.annual_demand_mwh, r.energy_generated_mwh)

\* C26: in every year with annual_demand_mwh > energy_generated_mwh, a storage
\* with round_trip_efficiency < 1 leaves unmet_demand_mwh > 0 and
\* reliability_pass false, whatever its size; with round_trip_efficiency = 1
\* unmet_demand_mwh is 0 exactly when the deficit is at most
\* min(energy_capacity_mwh x initial_soc_fraction, power_capacity_mw x 8760);
\* that limit is the same in every year: each year delivers
\* min(deficit, limit) x round_trip_efficiency, whatever earlier years drew.
C26_LossyStorageNeverCovers ==
    pc \in {"storage_dispatched", "storage_done"} =>
        \A i \in 1..Len(storage_results) :
            LET r == storage_results[i]
            IN  DeficitYear(r) =>
                    /\ RLt(storage.round_trip_efficiency, One) =>
                           /\ RLt(Zero, r.unmet_demand_mwh)
                           /\ pc = "storage_done" => ~r.reliability_pass
                    /\ storage.round_trip_efficiency = One =>
                           (r.unmet_demand_mwh = Zero
                               <=> RLe(GapOf(r), DeliverableOfStorage))
                    /\ r.storage_delivered_mwh =
                           RMul(IF RLe(GapOf(r), DeliverableOfStorage)
                                THEN GapOf(r) ELSE DeliverableOfStorage,
                                storage.round_trip_efficiency)

\* two deficit years behind a lossy storage with something to deliver: each
\* year draws the full limit again, stays short and fails, although the
\* reserve margin of one of them meets the target
C26_Witness ==
    /\ pc = "storage_done"
    /\ RLt(storage.round_trip_efficiency, One)
    /\ RLt(Zero, DeliverableOfStorage)
    /\ Len(storage_results) >= 2
    /\ \A i \in 1..2 :
           LET r == storage_results[i]
           IN  /\ DeficitYear(r)
               /\ r.storage_delivered_mwh
                      = RMul(DeliverableOfStorage, storage.round_trip_efficiency)
               /\ RLt(Zero, r.unmet_demand_mwh)
               /\ ~r.reliability_pass
    /\ \E i \in 1..2 : RLe(reserve_margin_target, storage_results[i].reserve_margin)

====
